---- MODULE Spec2Model ----
(***************************************************************************)
(* CalDAV client (package caldav): the conditional write path with its     *)
(* pluggable conflict resolution, the idempotent delete, the incremental   *)
(* synchronisation and the built-in conflict resolvers.                    *)
(*                                                                         *)
(* Strings of the program are tuples of one-character strings, so that the *)
(* empty string is <<>> and conversions can be computed character by       *)
(* character.  Instants are ticks: 0 is the zero time.Time, time.Now() is  *)
(* any tick in 1..MaxTime, and an HTTP date carries whole seconds only.    *)
(***************************************************************************)
EXTENDS Integers, Sequences, FiniteSets, TLC

(***************************************************************************)
(* Bounds of the model.                                                    *)
(***************************************************************************)
\* Instants explored: ticks 1..MaxTime.
MaxTime == 3
\* Nested handleConflict -> PutCalendarObject rounds explored: the server
\* rejects an unconditional re-write only below this depth.
MaxDepth == 2
\* Changes of the synced collection explored.
MaxGen == 2

(***************************************************************************)
(* Program constants.                                                      *)
(***************************************************************************)
UseLocal == 0
UseRemote == 1
Merge == 2
Skip == 3
\* A decision outside the enumeration, as a caller-written resolver may
\* return (ConflictDecision(999) in the tests).
UnknownDecision == 999

StatusPreconditionFailed == 412
StatusNotFound == 404
StatusGone == 410
StatusMultiStatus == 207

\* http.ParseTime reads whole seconds; time.Now() is finer.
TicksPerSecond == 2

(***************************************************************************)
(* Strings.                                                                *)
(***************************************************************************)
DQ == "\""
\* The grave accent (U+0060), the quote of a raw string literal: a TLA+
\* string cannot hold the character, this element stands for it.
BQ == "grave"
Star == <<"*">>
CalendarPath == <<"/", "c", "/">>
PathA == <<"/", "c", "/", "a", ".", "i", "c", "s">>
PathB == <<"/", "c", "/", "b">>
Paths == {PathA, PathB}
\* A Location value url.Parse rejects (an invalid escape).
BadURL == <<"%">>
\* What an absolute URL has before its path, and a query after it.
Origin == <<"h", "t", "t", "p", ":", "/", "/", "h">>
Query == <<"?", "x", "=", "1">>

Range(s) == {s[i] : i \in 1..Len(s)}

\* F of the value v: a value that is used in several places is computed
\* under one name, as a local variable of the code is.
With(v, F(_)) == F(v)

(***************************************************************************)
(* Go strings are sequences of bytes.  A byte is written as the character  *)
(* it encodes in ASCII where a TLA+ string can hold that character, and as *)
(* its value in hexadecimal otherwise.                                     *)
(***************************************************************************)
ByteTable ==
    <<
    "0x00", "0x01", "0x02", "0x03", "0x04", "0x05", "0x06", "0x07",
    "0x08", "\t", "\n", "0x0b", "\f", "\r", "0x0e", "0x0f",
    "0x10", "0x11", "0x12", "0x13", "0x14", "0x15", "0x16", "0x17",
    "0x18", "0x19", "0x1a", "0x1b", "0x1c", "0x1d", "0x1e", "0x1f",
    " ", "!", DQ, "#", "$", "%", "&", "'",
    "(", ")", "*", "+", ",", "-", ".", "/",
    "0", "1", "2", "3", "4", "5", "6", "7",
    "8", "9", ":", ";", "<", "=", ">", "?",
    "@", "A", "B", "C", "D", "E", "F", "G",
    "H", "I", "J", "K", "L", "M", "N", "O",
    "P", "Q", "R", "S", "T", "U", "V", "W",
    "X", "Y", "Z", "[", "\\", "]", "^", "_",
    BQ, "a", "b", "c", "d", "e", "f", "g",
    "h", "i", "j", "k", "l", "m", "n", "o",
    "p", "q", "r", "s", "t", "u", "v", "w",
    "x", "y", "z", "{", "|", "}", "~", "0x7f",
    "0x80", "0x81", "0x82", "0x83", "0x84", "0x85", "0x86", "0x87",
    "0x88", "0x89", "0x8a", "0x8b", "0x8c", "0x8d", "0x8e", "0x8f",
    "0x90", "0x91", "0x92", "0x93", "0x94", "0x95", "0x96", "0x97",
    "0x98", "0x99", "0x9a", "0x9b", "0x9c", "0x9d", "0x9e", "0x9f",
    "0xa0", "0xa1", "0xa2", "0xa3", "0xa4", "0xa5", "0xa6", "0xa7",
    "0xa8", "0xa9", "0xaa", "0xab", "0xac", "0xad", "0xae", "0xaf",
    "0xb0", "0xb1", "0xb2", "0xb3", "0xb4", "0xb5", "0xb6", "0xb7",
    "0xb8", "0xb9", "0xba", "0xbb", "0xbc", "0xbd", "0xbe", "0xbf",
    "0xc0", "0xc1", "0xc2", "0xc3", "0xc4", "0xc5", "0xc6", "0xc7",
    "0xc8", "0xc9", "0xca", "0xcb", "0xcc", "0xcd", "0xce", "0xcf",
    "0xd0", "0xd1", "0xd2", "0xd3", "0xd4", "0xd5", "0xd6", "0xd7",
    "0xd8", "0xd9", "0xda", "0xdb", "0xdc", "0xdd", "0xde", "0xdf",
    "0xe0", "0xe1", "0xe2", "0xe3", "0xe4", "0xe5", "0xe6", "0xe7",
    "0xe8", "0xe9", "0xea", "0xeb", "0xec", "0xed", "0xee", "0xef",
    "0xf0", "0xf1", "0xf2", "0xf3", "0xf4", "0xf5", "0xf6", "0xf7",
    "0xf8", "0xf9", "0xfa", "0xfb", "0xfc", "0xfd", "0xfe", "0xff"
    >>

Byte(v) == ByteTable[v + 1]
\* The value of a byte.
Ord == [c \in {ByteTable[i] : i \in 1..256} |->
            CHOOSE v \in 0..255 : ByteTable[v + 1] = c]

Drop(s, n) == SubSeq(s, n + 1, Len(s))
HasPrefix(s, p) == Len(s) >= Len(p) /\ SubSeq(s, 1, Len(p)) = p
\* strings.IndexByte and strings.LastIndexByte, counted from 1; 0 when the
\* byte is not there.
IndexByte(s, c) ==
    IF \E i \in 1..Len(s) : s[i] = c
    THEN CHOOSE i \in 1..Len(s) : s[i] = c /\ \A k \in 1..(i - 1) : s[k] # c
    ELSE 0
LastIndexByte(s, c) ==
    IF \E i \in 1..Len(s) : s[i] = c
    THEN CHOOSE i \in 1..Len(s) : s[i] = c /\ \A k \in (i + 1)..Len(s) : s[k] # c
    ELSE 0
\* strings.Cut at a byte.
Cut(s, c) ==
    LET i == IndexByte(s, c)
    IN  IF i = 0 THEN [before |-> s, after |-> <<>>, found |-> FALSE]
        ELSE [before |-> SubSeq(s, 1, i - 1), after |-> Drop(s, i), found |-> TRUE]

IsDigit(c) == Ord[c] \in 48..57
IsLetter(c) == Ord[c] \in 65..90 \/ Ord[c] \in 97..122
\* unhex: the value of a hexadecimal digit, -1 for another byte.
HexVal(c) ==
    With(Ord[c], LAMBDA o :
        IF o \in 48..57 THEN o - 48
        ELSE IF o \in 97..102 THEN o - 87
        ELSE IF o \in 65..70 THEN o - 55
        ELSE -1)

(***************************************************************************)
(* UTF-8 (unicode/utf8).                                                   *)
(***************************************************************************)
RuneError == 65533
MaxRune == 1114111

\* utf8.ValidRune
ValidRune(r) == (0 <= r /\ r < 55296) \/ (57343 < r /\ r <= MaxRune)

\* utf8.DecodeRuneInString on a non-empty string: the first rune and the
\* number of bytes that write it; RuneError and one byte when the string
\* does not begin with the encoding of a rune.
DecodeRune(s) ==
    LET n == Len(s)
        b(i) == Ord[s[i]]
        cont(i) == i <= n /\ b(i) \in 128..191
        b0 == b(1)
        lo == IF b0 = 224 THEN 160 ELSE IF b0 = 240 THEN 144 ELSE 128
        hi == IF b0 = 237 THEN 159 ELSE IF b0 = 244 THEN 143 ELSE 191
    IN  IF b0 < 128 THEN [r |-> b0, size |-> 1]
        ELSE IF b0 \in 194..223 /\ cont(2)
            THEN [r |-> (b0 - 192) * 64 + (b(2) - 128), size |-> 2]
        ELSE IF b0 \in 224..239 /\ n >= 3 /\ b(2) \in lo..hi /\ cont(3)
            THEN [r |-> (b0 - 224) * 4096 + (b(2) - 128) * 64 + (b(3) - 128),
                  size |-> 3]
        ELSE IF b0 \in 240..244 /\ n >= 4 /\ b(2) \in lo..hi /\ cont(3) /\ cont(4)
            THEN [r |-> (b0 - 240) * 262144 + (b(2) - 128) * 4096
                            + (b(3) - 128) * 64 + (b(4) - 128),
                  size |-> 4]
        ELSE [r |-> RuneError, size |-> 1]

\* utf8.AppendRune: the bytes that write a rune.
EncodeRune(r0) ==
    LET r == IF ValidRune(r0) THEN r0 ELSE RuneError
    IN  IF r < 128 THEN <<Byte(r)>>
        ELSE IF r < 2048 THEN <<Byte(192 + r \div 64), Byte(128 + (r % 64))>>
        ELSE IF r < 65536
            THEN <<Byte(224 + r \div 4096), Byte(128 + ((r \div 64) % 64)),
                   Byte(128 + (r % 64))>>
        ELSE <<Byte(240 + r \div 262144), Byte(128 + ((r \div 4096) % 64)),
               Byte(128 + ((r \div 64) % 64)), Byte(128 + (r % 64))>>

\* The runes of a string in order, as a range loop yields them: each with
\* the place of its first byte and the number of its bytes.
RECURSIVE RunesFrom(_, _)
RunesFrom(s, at) ==
    IF at > Len(s) THEN <<>>
    ELSE With(DecodeRune(Drop(s, at - 1)), LAMBDA d :
            <<[r |-> d.r, size |-> d.size, at |-> at]>> \o RunesFrom(s, at + d.size))
Runes(s) == RunesFrom(s, 1)

\* utf8.ValidString
ValidString(s) ==
    With(Runes(s), LAMBDA rs :
        \A k \in 1..Len(rs) : ~(rs[k].r = RuneError /\ rs[k].size = 1))

RECURSIVE Flatten(_)
Flatten(ss) == IF ss = <<>> THEN <<>> ELSE Head(ss) \o Flatten(Tail(ss))

\* unicode.IsSpace
IsSpace(r) ==
    r \in {9, 10, 11, 12, 13, 32, 133, 160, 5760, 8232, 8233, 8239, 8287, 12288}
        \cup (8192..8202)

\* strings.TrimLeftFunc(s, unicode.IsSpace)
RECURSIVE TrimLeftSpace(_)
TrimLeftSpace(s) ==
    IF s = <<>> THEN s
    ELSE With(DecodeRune(s), LAMBDA d :
            IF IsSpace(d.r) THEN TrimLeftSpace(Drop(s, d.size)) ELSE s)

\* strings.TrimSpace
TrimSpace(s) ==
    With(TrimLeftSpace(s), LAMBDA t :
    With(Runes(t), LAMBDA rs :
    With({k \in 1..Len(rs) : ~IsSpace(rs[k].r)}, LAMBDA solid :
        IF solid = {} THEN <<>>
        ELSE With(CHOOSE k \in solid : \A j \in solid : j <= k, LAMBDA last :
                SubSeq(t, 1, rs[last].at + rs[last].size - 1)))))

\* unicode.CaseRanges, the runes beyond ASCII, for the upper
\* and the lower case: a range of runes Lo..Hi, and what is added to a rune
\* of it to get its upper and its lower case.  A delta above MaxRune marks a
\* range in which upper and lower case letters alternate, an upper case one
\* first.
CaseRanges ==
    <<
      <<181, 181, 743, 0>>, <<192, 214, 0, 32>>, <<216, 222, 0, 32>>,
      <<224, 246, -32, 0>>, <<248, 254, -32, 0>>, <<255, 255, 121, 0>>,
      <<256, 303, 1114112, 1114112>>, <<304, 304, 0, -199>>, <<305, 305, -232, 0>>,
      <<306, 311, 1114112, 1114112>>, <<313, 328, 1114112, 1114112>>, <<330, 375, 1114112, 1114112>>,
      <<376, 376, 0, -121>>, <<377, 382, 1114112, 1114112>>, <<383, 383, -300, 0>>,
      <<384, 384, 195, 0>>, <<385, 385, 0, 210>>, <<386, 389, 1114112, 1114112>>,
      <<390, 390, 0, 206>>, <<391, 392, 1114112, 1114112>>, <<393, 394, 0, 205>>,
      <<395, 396, 1114112, 1114112>>, <<398, 398, 0, 79>>, <<399, 399, 0, 202>>,
      <<400, 400, 0, 203>>, <<401, 402, 1114112, 1114112>>, <<403, 403, 0, 205>>,
      <<404, 404, 0, 207>>, <<405, 405, 97, 0>>, <<406, 406, 0, 211>>,
      <<407, 407, 0, 209>>, <<408, 409, 1114112, 1114112>>, <<410, 410, 163, 0>>,
      <<412, 412, 0, 211>>, <<413, 413, 0, 213>>, <<414, 414, 130, 0>>,
      <<415, 415, 0, 214>>, <<416, 421, 1114112, 1114112>>, <<422, 422, 0, 218>>,
      <<423, 424, 1114112, 1114112>>, <<425, 425, 0, 218>>, <<428, 429, 1114112, 1114112>>,
      <<430, 430, 0, 218>>, <<431, 432, 1114112, 1114112>>, <<433, 434, 0, 217>>,
      <<435, 438, 1114112, 1114112>>, <<439, 439, 0, 219>>, <<440, 441, 1114112, 1114112>>,
      <<444, 445, 1114112, 1114112>>, <<447, 447, 56, 0>>, <<452, 452, 0, 2>>,
      <<453, 453, -1, 1>>, <<454, 454, -2, 0>>, <<455, 455, 0, 2>>,
      <<456, 456, -1, 1>>, <<457, 457, -2, 0>>, <<458, 458, 0, 2>>,
      <<459, 459, -1, 1>>, <<460, 460, -2, 0>>, <<461, 476, 1114112, 1114112>>,
      <<477, 477, -79, 0>>, <<478, 495, 1114112, 1114112>>, <<497, 497, 0, 2>>,
      <<498, 498, -1, 1>>, <<499, 499, -2, 0>>, <<500, 501, 1114112, 1114112>>,
      <<502, 502, 0, -97>>, <<503, 503, 0, -56>>, <<504, 543, 1114112, 1114112>>,
      <<544, 544, 0, -130>>, <<546, 563, 1114112, 1114112>>, <<570, 570, 0, 10795>>,
      <<571, 572, 1114112, 1114112>>, <<573, 573, 0, -163>>, <<574, 574, 0, 10792>>,
      <<575, 576, 10815, 0>>, <<577, 578, 1114112, 1114112>>, <<579, 579, 0, -195>>,
      <<580, 580, 0, 69>>, <<581, 581, 0, 71>>, <<582, 591, 1114112, 1114112>>,
      <<592, 592, 10783, 0>>, <<593, 593, 10780, 0>>, <<594, 594, 10782, 0>>,
      <<595, 595, -210, 0>>, <<596, 596, -206, 0>>, <<598, 599, -205, 0>>,
      <<601, 601, -202, 0>>, <<603, 603, -203, 0>>, <<604, 604, 42319, 0>>,
      <<608, 608, -205, 0>>, <<609, 609, 42315, 0>>, <<611, 611, -207, 0>>,
      <<613, 613, 42280, 0>>, <<614, 614, 42308, 0>>, <<616, 616, -209, 0>>,
      <<617, 617, -211, 0>>, <<618, 618, 42308, 0>>, <<619, 619, 10743, 0>>,
      <<620, 620, 42305, 0>>, <<623, 623, -211, 0>>, <<625, 625, 10749, 0>>,
      <<626, 626, -213, 0>>, <<629, 629, -214, 0>>, <<637, 637, 10727, 0>>,
      <<640, 640, -218, 0>>, <<642, 642, 42307, 0>>, <<643, 643, -218, 0>>,
      <<647, 647, 42282, 0>>, <<648, 648, -218, 0>>, <<649, 649, -69, 0>>,
      <<650, 651, -217, 0>>, <<652, 652, -71, 0>>, <<658, 658, -219, 0>>,
      <<669, 669, 42261, 0>>, <<670, 670, 42258, 0>>, <<837, 837, 84, 0>>,
      <<880, 883, 1114112, 1114112>>, <<886, 887, 1114112, 1114112>>, <<891, 893, 130, 0>>,
      <<895, 895, 0, 116>>, <<902, 902, 0, 38>>, <<904, 906, 0, 37>>,
      <<908, 908, 0, 64>>, <<910, 911, 0, 63>>, <<913, 929, 0, 32>>,
      <<931, 939, 0, 32>>, <<940, 940, -38, 0>>, <<941, 943, -37, 0>>,
      <<945, 961, -32, 0>>, <<962, 962, -31, 0>>, <<963, 971, -32, 0>>,
      <<972, 972, -64, 0>>, <<973, 974, -63, 0>>, <<975, 975, 0, 8>>,
      <<976, 976, -62, 0>>, <<977, 977, -57, 0>>, <<981, 981, -47, 0>>,
      <<982, 982, -54, 0>>, <<983, 983, -8, 0>>, <<984, 1007, 1114112, 1114112>>,
      <<1008, 1008, -86, 0>>, <<1009, 1009, -80, 0>>, <<1010, 1010, 7, 0>>,
      <<1011, 1011, -116, 0>>, <<1012, 1012, 0, -60>>, <<1013, 1013, -96, 0>>,
      <<1015, 1016, 1114112, 1114112>>, <<1017, 1017, 0, -7>>, <<1018, 1019, 1114112, 1114112>>,
      <<1021, 1023, 0, -130>>, <<1024, 1039, 0, 80>>, <<1040, 1071, 0, 32>>,
      <<1072, 1103, -32, 0>>, <<1104, 1119, -80, 0>>, <<1120, 1153, 1114112, 1114112>>,
      <<1162, 1215, 1114112, 1114112>>, <<1216, 1216, 0, 15>>, <<1217, 1230, 1114112, 1114112>>,
      <<1231, 1231, -15, 0>>, <<1232, 1327, 1114112, 1114112>>, <<1329, 1366, 0, 48>>,
      <<1377, 1414, -48, 0>>, <<4256, 4293, 0, 7264>>, <<4295, 4295, 0, 7264>>,
      <<4301, 4301, 0, 7264>>, <<4304, 4346, 3008, 0>>, <<4349, 4351, 3008, 0>>,
      <<5024, 5103, 0, 38864>>, <<5104, 5109, 0, 8>>, <<5112, 5117, -8, 0>>,
      <<7296, 7296, -6254, 0>>, <<7297, 7297, -6253, 0>>, <<7298, 7298, -6244, 0>>,
      <<7299, 7300, -6242, 0>>, <<7301, 7301, -6243, 0>>, <<7302, 7302, -6236, 0>>,
      <<7303, 7303, -6181, 0>>, <<7304, 7304, 35266, 0>>, <<7312, 7354, 0, -3008>>,
      <<7357, 7359, 0, -3008>>, <<7545, 7545, 35332, 0>>, <<7549, 7549, 3814, 0>>,
      <<7566, 7566, 35384, 0>>, <<7680, 7829, 1114112, 1114112>>, <<7835, 7835, -59, 0>>,
      <<7838, 7838, 0, -7615>>, <<7840, 7935, 1114112, 1114112>>, <<7936, 7943, 8, 0>>,
      <<7944, 7951, 0, -8>>, <<7952, 7957, 8, 0>>, <<7960, 7965, 0, -8>>,
      <<7968, 7975, 8, 0>>, <<7976, 7983, 0, -8>>, <<7984, 7991, 8, 0>>,
      <<7992, 7999, 0, -8>>, <<8000, 8005, 8, 0>>, <<8008, 8013, 0, -8>>,
      <<8017, 8017, 8, 0>>, <<8019, 8019, 8, 0>>, <<8021, 8021, 8, 0>>,
      <<8023, 8023, 8, 0>>, <<8025, 8025, 0, -8>>, <<8027, 8027, 0, -8>>,
      <<8029, 8029, 0, -8>>, <<8031, 8031, 0, -8>>, <<8032, 8039, 8, 0>>,
      <<8040, 8047, 0, -8>>, <<8048, 8049, 74, 0>>, <<8050, 8053, 86, 0>>,
      <<8054, 8055, 100, 0>>, <<8056, 8057, 128, 0>>, <<8058, 8059, 112, 0>>,
      <<8060, 8061, 126, 0>>, <<8064, 8071, 8, 0>>, <<8072, 8079, 0, -8>>,
      <<8080, 8087, 8, 0>>, <<8088, 8095, 0, -8>>, <<8096, 8103, 8, 0>>,
      <<8104, 8111, 0, -8>>, <<8112, 8113, 8, 0>>, <<8115, 8115, 9, 0>>,
      <<8120, 8121, 0, -8>>, <<8122, 8123, 0, -74>>, <<8124, 8124, 0, -9>>,
      <<8126, 8126, -7205, 0>>, <<8131, 8131, 9, 0>>, <<8136, 8139, 0, -86>>,
      <<8140, 8140, 0, -9>>, <<8144, 8145, 8, 0>>, <<8152, 8153, 0, -8>>,
      <<8154, 8155, 0, -100>>, <<8160, 8161, 8, 0>>, <<8165, 8165, 7, 0>>,
      <<8168, 8169, 0, -8>>, <<8170, 8171, 0, -112>>, <<8172, 8172, 0, -7>>,
      <<8179, 8179, 9, 0>>, <<8184, 8185, 0, -128>>, <<8186, 8187, 0, -126>>,
      <<8188, 8188, 0, -9>>, <<8486, 8486, 0, -7517>>, <<8490, 8490, 0, -8383>>,
      <<8491, 8491, 0, -8262>>, <<8498, 8498, 0, 28>>, <<8526, 8526, -28, 0>>,
      <<8544, 8559, 0, 16>>, <<8560, 8575, -16, 0>>, <<8579, 8580, 1114112, 1114112>>,
      <<9398, 9423, 0, 26>>, <<9424, 9449, -26, 0>>, <<11264, 11311, 0, 48>>,
      <<11312, 11359, -48, 0>>, <<11360, 11361, 1114112, 1114112>>, <<11362, 11362, 0, -10743>>,
      <<11363, 11363, 0, -3814>>, <<11364, 11364, 0, -10727>>, <<11365, 11365, -10795, 0>>,
      <<11366, 11366, -10792, 0>>, <<11367, 11372, 1114112, 1114112>>, <<11373, 11373, 0, -10780>>,
      <<11374, 11374, 0, -10749>>, <<11375, 11375, 0, -10783>>, <<11376, 11376, 0, -10782>>,
      <<11378, 11379, 1114112, 1114112>>, <<11381, 11382, 1114112, 1114112>>, <<11390, 11391, 0, -10815>>,
      <<11392, 11491, 1114112, 1114112>>, <<11499, 11502, 1114112, 1114112>>, <<11506, 11507, 1114112, 1114112>>,
      <<11520, 11557, -7264, 0>>, <<11559, 11559, -7264, 0>>, <<11565, 11565, -7264, 0>>,
      <<42560, 42605, 1114112, 1114112>>, <<42624, 42651, 1114112, 1114112>>, <<42786, 42799, 1114112, 1114112>>,
      <<42802, 42863, 1114112, 1114112>>, <<42873, 42876, 1114112, 1114112>>, <<42877, 42877, 0, -35332>>,
      <<42878, 42887, 1114112, 1114112>>, <<42891, 42892, 1114112, 1114112>>, <<42893, 42893, 0, -42280>>,
      <<42896, 42899, 1114112, 1114112>>, <<42900, 42900, 48, 0>>, <<42902, 42921, 1114112, 1114112>>,
      <<42922, 42922, 0, -42308>>, <<42923, 42923, 0, -42319>>, <<42924, 42924, 0, -42315>>,
      <<42925, 42925, 0, -42305>>, <<42926, 42926, 0, -42308>>, <<42928, 42928, 0, -42258>>,
      <<42929, 42929, 0, -42282>>, <<42930, 42930, 0, -42261>>, <<42931, 42931, 0, 928>>,
      <<42932, 42947, 1114112, 1114112>>, <<42948, 42948, 0, -48>>, <<42949, 42949, 0, -42307>>,
      <<42950, 42950, 0, -35384>>, <<42951, 42954, 1114112, 1114112>>, <<42960, 42961, 1114112, 1114112>>,
      <<42966, 42969, 1114112, 1114112>>, <<42997, 42998, 1114112, 1114112>>, <<43859, 43859, -928, 0>>,
      <<43888, 43967, -38864, 0>>, <<65313, 65338, 0, 32>>, <<65345, 65370, -32, 0>>,
      <<66560, 66599, 0, 40>>, <<66600, 66639, -40, 0>>, <<66736, 66771, 0, 40>>,
      <<66776, 66811, -40, 0>>, <<66928, 66938, 0, 39>>, <<66940, 66954, 0, 39>>,
      <<66956, 66962, 0, 39>>, <<66964, 66965, 0, 39>>, <<66967, 66977, -39, 0>>,
      <<66979, 66993, -39, 0>>, <<66995, 67001, -39, 0>>, <<67003, 67004, -39, 0>>,
      <<68736, 68786, 0, 64>>, <<68800, 68850, -64, 0>>, <<71840, 71871, 0, 32>>,
      <<71872, 71903, -32, 0>>, <<93760, 93791, 0, 32>>, <<93792, 93823, -32, 0>>,
      <<125184, 125217, 0, 34>>, <<125218, 125251, -34, 0>> >>

\* unicode.caseOrbit: the runes beyond ASCII whose next rune under simple
\* case folding is not their other case, each with that next rune.
caseOrbit ==
    <<
      <<223, 7838>>, <<229, 8491>>, <<304, 304>>, <<305, 305>>, <<452, 453>>,
      <<455, 456>>, <<458, 459>>, <<497, 498>>, <<931, 962>>, <<946, 976>>,
      <<949, 1013>>, <<952, 977>>, <<953, 8126>>, <<954, 1008>>, <<956, 181>>,
      <<960, 982>>, <<961, 1009>>, <<962, 963>>, <<966, 981>>, <<969, 8486>>,
      <<977, 1012>>, <<1012, 920>>, <<1074, 7296>>, <<1076, 7297>>, <<1086, 7298>>,
      <<1089, 7299>>, <<1090, 7300>>, <<1098, 7302>>, <<1123, 7303>>, <<7300, 7301>>,
      <<7777, 7835>>, <<8126, 837>>, <<8486, 937>>, <<8490, 75>>, <<8491, 197>>,
      <<42571, 7304>> >>

\* unicode.To(_case, r) on a rune beyond ASCII, the upper case being case 0
\* and the lower case 1: the rune itself when no range holds it.
To(which, r) ==
    With({i \in DOMAIN CaseRanges : CaseRanges[i][1] <= r /\ r <= CaseRanges[i][2]},
         LAMBDA found :
            IF found = {} THEN r
            ELSE With(CaseRanges[CHOOSE i \in found : TRUE], LAMBDA cr :
                    IF cr[3 + which] > MaxRune
                    THEN cr[1] + ((r - cr[1]) \div 2) * 2 + which
                    ELSE r + cr[3 + which]))

\* unicode.ToLower on a rune.
ToLowerRune(r) ==
    IF r <= 127 THEN (IF r \in 65..90 THEN r + 32 ELSE r)
    ELSE To(1, r)

\* strings.ToLower: rune by rune; a byte that begins no rune becomes
\* U+FFFD.
ToLower(s) ==
    With(Runes(s), LAMBDA rs :
        Flatten([k \in 1..Len(rs) |-> EncodeRune(ToLowerRune(rs[k].r))]))

\* unicode.SimpleFold: the next rune, in rising order and around, among the
\* runes that are r but for their case.  Of the ASCII letters, k goes on to
\* the Kelvin sign (U+212A) and s to the long s (U+017F).
SimpleFold(r) ==
    IF r <= 127
    THEN IF r = 107 THEN 8490
         ELSE IF r = 115 THEN 383
         ELSE IF r \in 65..90 THEN r + 32
         ELSE IF r \in 97..122 THEN r - 32
         ELSE r
    ELSE With({i \in DOMAIN caseOrbit : caseOrbit[i][1] = r}, LAMBDA found :
            IF found # {} THEN caseOrbit[CHOOSE i \in found : TRUE][2]
            ELSE IF To(1, r) # r THEN To(1, r)
            ELSE To(0, r))

\* The loop of strings.EqualFold on two runes sr < tr, from r on: r goes
\* round the runes that fold with sr until it is back or has reached tr.
RECURSIVE FoldsTo(_, _, _)
FoldsTo(r, sr, tr) ==
    IF r # sr /\ r < tr THEN FoldsTo(SimpleFold(r), sr, tr)
    ELSE r = tr

\* strings.EqualFold: rune by rune under simple case folding; bytes that
\* begin no rune all read as U+FFFD.
EqualFold(s, t) ==
    \/ s = t
    \/ With(Runes(s), LAMBDA rs :
       With(Runes(t), LAMBDA rt :
            /\ Len(rs) = Len(rt)
            /\ \A k \in 1..Len(rs) :
                With(IF rs[k].r < rt[k].r THEN rs[k].r ELSE rt[k].r, LAMBDA sr :
                With(IF rs[k].r < rt[k].r THEN rt[k].r ELSE rs[k].r, LAMBDA tr :
                    \/ tr = sr
                    \/ IF tr <= 127 THEN sr \in 65..90 /\ tr = sr + 32
                       ELSE FoldsTo(SimpleFold(sr), sr, tr)))))

(***************************************************************************)
(* strconv.Unquote.                                                        *)
(***************************************************************************)
\* The value of n hexadecimal digits, or of any number above MaxRune when
\* it is above MaxRune.
RECURSIVE HexValue(_)
HexValue(s) ==
    IF s = <<>> THEN 0
    ELSE With(16 * HexValue(SubSeq(s, 1, Len(s) - 1)) + HexVal(s[Len(s)]), LAMBDA v :
            IF v > MaxRune THEN MaxRune + 1 ELSE v)

\* strconv.UnquoteChar: the first character of s, escaped or not, inside a
\* literal with the given quote: its value, whether it is a rune to be
\* written in UTF-8 (a byte otherwise), and what is left of s.
UnquoteChar(s, quote) ==
    LET bad == [ok |-> FALSE, value |-> 0, multibyte |-> FALSE, tail |-> <<>>]
        got(v, m, t) == [ok |-> TRUE, value |-> v, multibyte |-> m, tail |-> t]
    IN  IF s = <<>> THEN bad
        ELSE IF s[1] = quote /\ quote \in {"'", DQ} THEN bad
        ELSE IF Ord[s[1]] >= 128
            THEN With(DecodeRune(s), LAMBDA d : got(d.r, TRUE, Drop(s, d.size)))
        ELSE IF s[1] # "\\" THEN got(Ord[s[1]], FALSE, Tail(s))
        ELSE IF Len(s) <= 1 THEN bad
        ELSE LET c == s[2]
                 rest == Drop(s, 2)
                 n == IF c = "x" THEN 2 ELSE IF c = "u" THEN 4 ELSE 8
             IN  CASE c = "a" -> got(7, FALSE, rest)
                   [] c = "b" -> got(8, FALSE, rest)
                   [] c = "f" -> got(12, FALSE, rest)
                   [] c = "n" -> got(10, FALSE, rest)
                   [] c = "r" -> got(13, FALSE, rest)
                   [] c = "t" -> got(9, FALSE, rest)
                   [] c = "v" -> got(11, FALSE, rest)
                   [] c \in {"x", "u", "U"} ->
                        IF Len(rest) < n \/ \E j \in 1..n : HexVal(rest[j]) < 0 THEN bad
                        ELSE With(HexValue(SubSeq(rest, 1, n)), LAMBDA v :
                                IF c = "x" THEN got(v, FALSE, Drop(rest, n))
                                ELSE IF ~ValidRune(v) THEN bad
                                ELSE got(v, TRUE, Drop(rest, n)))
                   [] Ord[c] \in 48..55 ->
                        IF Len(rest) < 2 \/ \E j \in 1..2 : Ord[rest[j]] \notin 48..55
                        THEN bad
                        ELSE With((Ord[c] - 48) * 64 + (Ord[rest[1]] - 48) * 8
                                        + (Ord[rest[2]] - 48),
                                  LAMBDA o :
                                    IF o > 255 THEN bad ELSE got(o, FALSE, Drop(rest, 2)))
                   [] c = "\\" -> got(92, FALSE, rest)
                   [] c \in {"'", DQ} ->
                        IF c # quote THEN bad ELSE got(Ord[c], FALSE, rest)
                   [] OTHER -> bad

\* strconv.Unquote past the opening quote, for a literal that is not taken
\* as it is: the characters up to the closing quote, one by one, a byte for
\* each but the runes beyond ASCII, which are written in UTF-8; a character
\* literal holds one; a line feed ends nothing; nothing may follow the
\* closing quote.
RECURSIVE UnquoteEscaped(_, _, _)
UnquoteEscaped(in, quote, buf) ==
    IF in = <<>> THEN [ok |-> FALSE, s |-> <<>>]
    ELSE IF in[1] = quote
        THEN IF Len(in) = 1 THEN [ok |-> TRUE, s |-> buf] ELSE [ok |-> FALSE, s |-> <<>>]
    ELSE With(UnquoteChar(in, quote), LAMBDA u :
         With(IF u.value < 128 \/ ~u.multibyte THEN <<Byte(u.value)>>
              ELSE EncodeRune(u.value),
              LAMBDA bytes :
                IF in[1] = "\n" \/ ~u.ok THEN [ok |-> FALSE, s |-> <<>>]
                ELSE IF quote = "'"
                    THEN IF u.tail = <<quote>> THEN [ok |-> TRUE, s |-> buf \o bytes]
                         ELSE [ok |-> FALSE, s |-> <<>>]
                ELSE UnquoteEscaped(u.tail, quote, buf \o bytes)))

\* A conversion that takes no value for a quoted one.
UnquoteNever(s) == [ok |-> FALSE, s |-> <<>>]

\* strconv.Unquote: the value must begin with a quote and end with the
\* first later occurrence of it that is not escaped.  Between grave accents
\* the value is taken as it is, without carriage returns.  Between double
\* quotes a value of valid UTF-8 without backslash and line feed is taken
\* as it is, and so is, between single quotes, one rune or nothing; any
\* other value is read character by character.
Unquote(s) ==
    LET n == Len(s)
        quote == s[1]
        \* one rune and no more
        OneRune(inside) ==
            With(DecodeRune(inside), LAMBDA d :
                d.size = Len(inside) /\ (d.r # RuneError \/ d.size # 1))
    IN  IF n < 2 THEN [ok |-> FALSE, s |-> <<>>]
        ELSE
          With(IndexByte(Tail(s), quote) + 1, LAMBDA end :
          With(SubSeq(s, 2, end - 1), LAMBDA inside :
            IF end = 1 THEN [ok |-> FALSE, s |-> <<>>]
            ELSE IF quote = BQ
                THEN IF end = n
                     THEN [ok |-> TRUE, s |-> SelectSeq(inside, LAMBDA c : c # "\r")]
                     ELSE [ok |-> FALSE, s |-> <<>>]
            ELSE IF quote \in {DQ, "'"}
                THEN IF /\ "\\" \notin Range(inside)
                        /\ "\n" \notin Range(inside)
                        /\ IF quote = DQ THEN ValidString(inside)
                           ELSE inside = <<>> \/ OneRune(inside)
                     THEN IF end = n THEN [ok |-> TRUE, s |-> inside]
                          ELSE [ok |-> FALSE, s |-> <<>>]
                     ELSE UnquoteEscaped(Tail(s), quote, <<>>)
            ELSE [ok |-> FALSE, s |-> <<>>]))

(***************************************************************************)
(* strconv.ParseInt(s, 10, 64).  An int64 is written as its decimal        *)
(* numeral: the digits without leading zeros, after a minus sign when it   *)
(* is negative.                                                            *)
(***************************************************************************)
Zero == <<"0">>
MaxInt64 == <<"9", "2", "2", "3", "3", "7", "2", "0", "3", "6", "8", "5", "4", "7",
              "7", "5", "8", "0", "7">>
MinInt64Digits == <<"9", "2", "2", "3", "3", "7", "2", "0", "3", "6", "8", "5", "4",
                    "7", "7", "5", "8", "0", "8">>

RECURSIVE StripZeros(_)
StripZeros(ds) ==
    IF Len(ds) > 1 /\ ds[1] = "0" THEN StripZeros(Tail(ds)) ELSE ds

\* a <= b for two numerals without sign and leading zeros.
NumeralLeq(a, b) ==
    \/ Len(a) < Len(b)
    \/ /\ Len(a) = Len(b)
       /\ \/ a = b
          \/ \E i \in 1..Len(a) :
                /\ SubSeq(a, 1, i - 1) = SubSeq(b, 1, i - 1)
                /\ Ord[a[i]] < Ord[b[i]]

ParseInt(s) ==
    LET neg == s # <<>> /\ s[1] = "-"
        ds == IF s # <<>> /\ s[1] \in {"+", "-"} THEN Tail(s) ELSE s
        un == StripZeros(ds)
    IN  IF ds = <<>> \/ \E i \in 1..Len(ds) : ~IsDigit(ds[i])
        THEN [ok |-> FALSE, n |-> Zero]
        ELSE IF ~NumeralLeq(un, IF neg THEN MinInt64Digits ELSE MaxInt64)
            THEN [ok |-> FALSE, n |-> Zero]
        ELSE [ok |-> TRUE, n |-> IF neg /\ un # Zero THEN <<"-">> \o un ELSE un]

(***************************************************************************)
(* url.Parse, as far as the Path of its result and its error go.           *)
(***************************************************************************)
\* unescape in the modes that check nothing but the escapes (path,
\* fragment, user and password): the bytes of s with every %XX undone.
RECURSIVE Unescape(_)
Unescape(s) ==
    IF s = <<>> THEN [ok |-> TRUE, s |-> <<>>]
    ELSE IF s[1] = "%"
        THEN IF Len(s) < 3 \/ HexVal(s[2]) < 0 \/ HexVal(s[3]) < 0
             THEN [ok |-> FALSE, s |-> <<>>]
             ELSE With(Unescape(Drop(s, 3)), LAMBDA t :
                    [ok |-> t.ok,
                     s |-> <<Byte(16 * HexVal(s[2]) + HexVal(s[3]))>> \o t.s])
    ELSE With(Unescape(Tail(s)), LAMBDA t : [ok |-> t.ok, s |-> <<s[1]>> \o t.s])

\* The bytes of ASCII a host may hold as they are (shouldEscape in the mode
\* of hosts).
HostBytes ==
    {"!", "$", "&", "'", "(", ")", "*", "+", ",", ";", "=", ":", "[", "]", "<", ">",
     DQ, "-", "_", ".", "~"}
ShouldEscapeHost(c) == ~(IsLetter(c) \/ IsDigit(c) \/ c \in HostBytes)

\* unescape in the mode of hosts (zone: of the zone of an IPv6 literal):
\* whether s is accepted.
RECURSIVE HostUnescapes(_, _)
HostUnescapes(s, zone) ==
    IF s = <<>> THEN TRUE
    ELSE IF s[1] = "%"
        THEN /\ Len(s) >= 3 /\ HexVal(s[2]) >= 0 /\ HexVal(s[3]) >= 0
             /\ LET v == 16 * HexVal(s[2]) + HexVal(s[3])
                IN  IF zone
                    THEN \/ SubSeq(s, 1, 3) = <<"%", "2", "5">>
                         \/ v = 32
                         \/ ~ShouldEscapeHost(Byte(v))
                    ELSE HexVal(s[2]) >= 8 \/ SubSeq(s, 1, 3) = <<"%", "2", "5">>
             /\ HostUnescapes(Drop(s, 3), zone)
    ELSE /\ Ord[s[1]] >= 128 \/ ~ShouldEscapeHost(s[1])
         /\ HostUnescapes(Tail(s), zone)

\* validOptionalPort: nothing, or a colon and digits.
ValidOptionalPort(p) ==
    p = <<>> \/ (p[1] = ":" /\ \A i \in 2..Len(p) : IsDigit(p[i]))

\* The place of "%25" in s, 0 when it is not there.
IndexZone(s) ==
    LET at == {i \in 1..(Len(s) - 2) : SubSeq(s, i, i + 2) = <<"%", "2", "5">>}
    IN  IF at = {} THEN 0 ELSE CHOOSE i \in at : \A k \in at : i <= k

\* parseHost: whether the host is accepted.
ParseHostOK(host) ==
    IF HasPrefix(host, <<"[">>)
    THEN With(LastIndexByte(host, "]"), LAMBDA close :
         With(IndexZone(SubSeq(host, 1, close - 1)), LAMBDA zone :
            /\ close # 0
            /\ ValidOptionalPort(Drop(host, close))
            /\ \A part \in IF zone # 0
                           THEN {<<SubSeq(host, 1, zone - 1), FALSE>>,
                                 <<SubSeq(host, zone, close - 1), TRUE>>,
                                 <<Drop(host, close - 1), FALSE>>}
                           ELSE {<<host, FALSE>>} :
                    HostUnescapes(part[1], part[2])))
    ELSE With(LastIndexByte(host, ":"), LAMBDA colon :
            /\ colon # 0 => ValidOptionalPort(Drop(host, colon - 1))
            /\ HostUnescapes(host, FALSE))

\* validUserinfo
UserinfoBytes ==
    {"-", ".", "_", ":", "~", "!", "$", "&", "'", "(", ")", "*", "+", ",", ";", "=",
     "%", "@"}
ValidUserinfo(s) ==
    With(Runes(s), LAMBDA rs :
        \A k \in 1..Len(rs) :
            /\ rs[k].r < 128
            /\ With(Byte(rs[k].r), LAMBDA c :
                    IsLetter(c) \/ IsDigit(c) \/ c \in UserinfoBytes))

\* parseAuthority: whether user, password and host are accepted.
ParseAuthorityOK(authority) ==
    With(LastIndexByte(authority, "@"), LAMBDA i :
        /\ ParseHostOK(Drop(authority, i))
        /\ i # 0 =>
            With(SubSeq(authority, 1, i - 1), LAMBDA userinfo :
            With(Cut(userinfo, ":"), LAMBDA pair :
                /\ ValidUserinfo(userinfo)
                /\ Unescape(pair.before).ok
                /\ Unescape(pair.after).ok)))

\* getScheme: the scheme before the first colon, if what stands there is
\* one, and the rest; missing says that the value begins with a colon.
GetScheme(rawURL) ==
    LET SchemeByte(c) == IsLetter(c) \/ IsDigit(c) \/ c \in {"+", "-", "."}
        none == [scheme |-> <<>>, rest |-> rawURL, missing |-> FALSE]
    IN  With({k \in 1..Len(rawURL) :
                ~(IsLetter(rawURL[k]) \/ (k > 1 /\ SchemeByte(rawURL[k])))},
             LAMBDA at :
                IF at = {} THEN none
                ELSE With(CHOOSE k \in at : \A j \in at : k <= j, LAMBDA first :
                        IF rawURL[first] # ":" THEN none
                        ELSE IF first = 1
                            THEN [scheme |-> <<>>, rest |-> <<>>, missing |-> TRUE]
                        ELSE [scheme |-> SubSeq(rawURL, 1, first - 1),
                              rest |-> Drop(rawURL, first), missing |-> FALSE]))

\* parse(rawURL, false): the URL without its fragment.
UrlParseNoFragment(rawURL) ==
    LET bad == [ok |-> FALSE, Path |-> <<>>]
        \* The rest is "//", an authority and a path.
        WithAuthority(rest) ==
            With(Drop(rest, 2), LAMBDA afterSlashes :
            With(IndexByte(afterSlashes, "/"), LAMBDA slash :
                IF ~ParseAuthorityOK(IF slash = 0 THEN afterSlashes
                                     ELSE SubSeq(afterSlashes, 1, slash - 1))
                THEN bad
                ELSE With(Unescape(IF slash = 0 THEN <<>>
                                   ELSE Drop(afterSlashes, slash - 1)),
                          LAMBDA p : IF ~p.ok THEN bad ELSE [ok |-> TRUE, Path |-> p.s])))
    IN  IF \E i \in 1..Len(rawURL) : Ord[rawURL[i]] < 32 \/ Ord[rawURL[i]] = 127
        THEN bad
        ELSE IF rawURL = <<"*">> THEN [ok |-> TRUE, Path |-> <<"*">>]
        ELSE
          With(GetScheme(rawURL), LAMBDA sch :
          With(Cut(sch.rest, "?").before, LAMBDA rest :
            IF sch.missing THEN bad
            ELSE IF ~HasPrefix(rest, <<"/">>) /\ sch.scheme # <<>>
                THEN [ok |-> TRUE, Path |-> <<>>]
            ELSE IF ~HasPrefix(rest, <<"/">>) /\ ":" \in Range(Cut(rest, "/").before)
                THEN bad
            ELSE IF /\ sch.scheme # <<>> \/ ~HasPrefix(rest, <<"/", "/", "/">>)
                    /\ HasPrefix(rest, <<"/", "/">>)
                THEN WithAuthority(rest)
            ELSE With(Unescape(rest), LAMBDA p :
                    IF ~p.ok THEN bad ELSE [ok |-> TRUE, Path |-> p.s])))

\* url.Parse: the Path of the URL, with its escapes undone; scheme, host,
\* query and fragment are no part of it.
UrlParse(rawURL) ==
    With(Cut(rawURL, "#"), LAMBDA cut :
    With(UrlParseNoFragment(cut.before), LAMBDA u :
        IF u.ok /\ ~Unescape(cut.after).ok THEN [ok |-> FALSE, Path |-> <<>>]
        ELSE u))

(***************************************************************************)
(* mime.ParseMediaType, as far as the media type and the error go.         *)
(***************************************************************************)
TSpecials ==
    {"(", ")", "<", ">", "@", ",", ";", ":", "\\", DQ, "/", "[", "]", "?", "="}
IsTokenChar(c) == Ord[c] > 32 /\ Ord[c] < 127 /\ c \notin TSpecials

\* consumeToken: the longest token v begins with, and the rest.
ConsumeToken(v) ==
    With({i \in 1..Len(v) : ~IsTokenChar(v[i])}, LAMBDA stops :
        IF stops = {} THEN [token |-> v, rest |-> <<>>]
        ELSE With(CHOOSE k \in stops : \A j \in stops : k <= j, LAMBDA i :
                [token |-> SubSeq(v, 1, i - 1), rest |-> Drop(v, i - 1)]))

\* consumeValue on a value that begins with a double quote, from its byte
\* i on: the quoted string without its quotes and escapes, and the rest;
\* nothing consumed when the string is not closed or holds a line break.
RECURSIVE ConsumeQuoted(_, _, _)
ConsumeQuoted(v, i, buf) ==
    IF i > Len(v) THEN [value |-> <<>>, rest |-> v]
    ELSE IF v[i] = DQ THEN [value |-> buf, rest |-> Drop(v, i)]
    ELSE IF v[i] = "\\" /\ i + 1 <= Len(v) /\ v[i + 1] \in TSpecials
        THEN ConsumeQuoted(v, i + 2, Append(buf, v[i + 1]))
    ELSE IF v[i] \in {"\r", "\n"} THEN [value |-> <<>>, rest |-> v]
    ELSE ConsumeQuoted(v, i + 1, Append(buf, v[i]))

\* consumeValue: a token or a quoted string.
ConsumeValue(v) ==
    IF v = <<>> THEN [value |-> <<>>, rest |-> <<>>]
    ELSE IF v[1] # DQ
        THEN With(ConsumeToken(v), LAMBDA t : [value |-> t.token, rest |-> t.rest])
    ELSE ConsumeQuoted(v, 2, <<>>)

\* consumeMediaParam: the parameter v begins with, "; name = value", and
\* the rest; no key and the whole of v when it begins with none.
ConsumeMediaParam(v) ==
    LET none == [key |-> <<>>, value |-> <<>>, rest |-> v]
    IN  With(TrimLeftSpace(v), LAMBDA r1 :
            IF ~HasPrefix(r1, <<";">>) THEN none
            ELSE
              With(ConsumeToken(TrimLeftSpace(Tail(r1))), LAMBDA param :
              With(TrimLeftSpace(param.rest), LAMBDA r3 :
                IF param.token = <<>> THEN none
                ELSE IF ~HasPrefix(r3, <<"=">>) THEN none
                ELSE
                  With(TrimLeftSpace(Tail(r3)), LAMBDA r4 :
                  With(ConsumeValue(r4), LAMBDA val :
                    IF val.value = <<>> /\ val.rest = r4 THEN none
                    ELSE [key |-> ToLower(param.token), value |-> val.value,
                          rest |-> val.rest])))))

\* checkMediaTypeDisposition: a token, or a token, a slash and a token.
CheckMediaTypeDisposition(s) ==
    With(ConsumeToken(s), LAMBDA typ :
        /\ typ.token # <<>>
        /\ \/ typ.rest = <<>>
           \/ /\ HasPrefix(typ.rest, <<"/">>)
              /\ With(ConsumeToken(Tail(typ.rest)), LAMBDA subtype :
                    subtype.token # <<>> /\ subtype.rest = <<>>))

\* The loop of ParseMediaType over the parameters: whether it ends without
\* an error.  A last semicolon is let through; a name may come twice with
\* one value only.
RECURSIVE MediaParamsOK(_, _)
MediaParamsOK(v0, seen) ==
    With(TrimLeftSpace(v0), LAMBDA v :
        IF v = <<>> THEN TRUE
        ELSE With(ConsumeMediaParam(v), LAMBDA p :
                IF p.key = <<>> THEN TrimSpace(p.rest) = <<";">>
                ELSE IF \E q \in seen : q[1] = p.key /\ q[2] # p.value THEN FALSE
                ELSE MediaParamsOK(p.rest, seen \cup {<<p.key, p.value>>})))

\* mime.ParseMediaType: the media type, in lower case and without the
\* blanks around it, of a value whose parameters are well formed.
ParseMediaType(v) ==
    With(Cut(v, ";").before, LAMBDA base :
    With(TrimSpace(ToLower(base)), LAMBDA mediatype :
        IF ~CheckMediaTypeDisposition(mediatype) THEN [ok |-> FALSE, mediaType |-> <<>>]
        ELSE IF ~MediaParamsOK(Drop(v, Len(base)), {})
            THEN [ok |-> FALSE, mediaType |-> <<>>]
        ELSE [ok |-> TRUE, mediaType |-> mediatype]))

Digits == {"0", "1", "2", "3", "4", "5", "6", "7", "8", "9"}
DigitVal(c) ==
    CASE c = "0" -> 0 [] c = "1" -> 1 [] c = "2" -> 2 [] c = "3" -> 3
      [] c = "4" -> 4 [] c = "5" -> 5 [] c = "6" -> 6 [] c = "7" -> 7
      [] c = "8" -> 8 [] c = "9" -> 9

\* Calendar documents the caller writes and the server stores.
Docs == {"1", "2"}
\* A calendar the iCalendar encoder refuses.
InvalidCal == "invalid"
\* A calendar-data payload the iCalendar decoder refuses.
CorruptBody == "corrupt"
NoData == "nil"
\* No resource at a path of the server.
NoRes == "none"

(***************************************************************************)
(* CalendarObject values and pointers to them.                             *)
(***************************************************************************)
NilObj == [isNil |-> TRUE]

CalendarObject(path) ==
    [isNil |-> FALSE, Path |-> path, ETag |-> <<>>, ModTime |-> 0,
     ContentLength |-> Zero, Data |-> NoData]

(***************************************************************************)
(* Errors.                                                                 *)
(***************************************************************************)
\* An error value: its kind, the Code of an HTTPError, and the error it
\* wraps (the empty sequence when Unwrap gives nil).
Err(kind) == [kind |-> kind, code |-> 0, wraps |-> <<>>]
NoErr == Err("nil")
ErrSyncTokenExpired == Err("ErrSyncTokenExpired")
ErrPreconditionFailed == Err("ErrPreconditionFailed")
ErrMergeNotSupported == Err("ErrMergeNotSupported")
HTTPError(code) == [kind |-> "HTTPError", code |-> code, wraps |-> <<>>]
\* fmt.Errorf(msg + ": %w", e)
Wrap(msg, e) == [kind |-> msg, code |-> 0, wraps |-> <<e>>]
\* errors.As(err, &httpErr): the first *HTTPError on the chain of err, as a
\* sequence of one error, and the empty sequence when the chain has none.
RECURSIVE AsHTTPError(_)
AsHTTPError(err) ==
    IF err.kind = "HTTPError" THEN <<err>>
    ELSE IF err.wraps = <<>> THEN <<>>
    ELSE AsHTTPError(err.wraps[1])
\* A handleConflict that reports a failed re-fetch as the conflict itself.
WrapGetErrorAsConflict(e) == ErrPreconditionFailed
\* fmt.Errorf("failed to get remote version: %w", err)
WrapGetError(e) == Wrap("failed to get remote version", e)
\* The error a failing transport returns.
TransportError == Err("transport")
\* The error of c.ic.Do on the outcome o of a request: the failure to get a
\* response; for the response of a failing server or gateway (5xx) the
\* HTTPError of its status; nil for a response it hands to the caller.
DoError(o) ==
    IF o.neterr THEN TransportError
    ELSE IF o.status \div 100 = 5 THEN HTTPError(o.status)
    ELSE NoErr

(***************************************************************************)
(* Conflict resolvers (conflict.go).  A resolver is named by a string;     *)
(* "nil" is the nil interface value, "Custom" a resolver written by the    *)
(* caller, which may return any decision.                                  *)
(***************************************************************************)
After(t, u) == t > u

\* A LastModifiedWinsResolver whose tie goes to the server.
LastModifiedWinsResolveTieRemote(local, remote) ==
    IF local = NilObj /\ remote = NilObj THEN Skip
    ELSE IF local = NilObj THEN UseRemote
    ELSE IF remote = NilObj THEN UseLocal
    ELSE IF After(local.ModTime, remote.ModTime) THEN UseLocal
    ELSE UseRemote

\* A LastModifiedWinsResolver that compares nothing.
LastModifiedWinsResolveLocalFirst(local, remote) ==
    IF local = NilObj /\ remote = NilObj THEN Skip
    ELSE IF local = NilObj THEN UseRemote
    ELSE UseLocal

LastModifiedWinsResolve(local, remote) ==
    IF local = NilObj /\ remote = NilObj THEN Skip
    ELSE IF local = NilObj THEN UseRemote
    ELSE IF remote = NilObj THEN UseLocal
    ELSE IF After(local.ModTime, remote.ModTime) THEN UseLocal
    ELSE IF After(remote.ModTime, local.ModTime) THEN UseRemote
    ELSE UseLocal

\* An AlwaysUseLocalResolver without its nil check.
AlwaysUseLocalResolveUnchecked(local, remote) == UseLocal

AlwaysUseLocalResolve(local, remote) ==
    IF local = NilObj THEN UseRemote ELSE UseLocal

AlwaysUseRemoteResolve(local, remote) ==
    IF remote = NilObj THEN UseLocal ELSE UseRemote

BuiltinResolvers == {"LastModifiedWins", "AlwaysUseLocal", "AlwaysUseRemote"}
Resolvers == BuiltinResolvers \cup {"Custom"}
Decisions == {UseLocal, UseRemote, Merge, Skip, UnknownDecision}

\* The decisions resolver r may return on (local, remote).
Resolve(r, local, remote) ==
    CASE r = "LastModifiedWins" -> {LastModifiedWinsResolve(local, remote)}
      [] r = "AlwaysUseLocal" -> {AlwaysUseLocalResolve(local, remote)}
      [] r = "AlwaysUseRemote" -> {AlwaysUseRemoteResolve(local, remote)}
      [] OTHER -> Decisions

(***************************************************************************)
(* The headers of a response (populateCalendarObject).                     *)
(***************************************************************************)
\* A Last-Modified header: absent, malformed, or an HTTP date of whole
\* seconds.
NoDate == [set |-> FALSE, ok |-> FALSE, sec |-> 0]
BadDate == [set |-> TRUE, ok |-> FALSE, sec |-> 0]
HTTPDate(sec) == [set |-> TRUE, ok |-> TRUE, sec |-> sec]

\* http.ParseTime: the instant of an HTTP date.
ParseTime(d) ==
    IF d.ok THEN [ok |-> TRUE, t |-> d.sec * TicksPerSecond]
    ELSE [ok |-> FALSE, t |-> 0]

NoHeaders == [Location |-> <<>>, ETag |-> <<>>, ContentLength |-> <<>>,
              LastModified |-> NoDate]

\* The entity tag a server derives from a document, and a value between
\* double quotes.
ETagOf(doc) == <<"e", doc>>
Quote(s) == <<DQ>> \o s \o <<DQ>>

\* ical.MIMEType
MIMEType == <<"t", "e", "x", "t", "/", "c", "a", "l", "e", "n", "d", "a", "r">>
\* Content-Type values of servers: the media type of calendars with a
\* parameter and in another case, and the one of an error page.
CalendarWithCharset ==
    <<"T", "e", "x", "t", "/", "C", "a", "l", "e", "n", "d", "a", "r", ";", " ",
      "c", "h", "a", "r", "s", "e", "t", "=", "u", "t", "f", "-", "8">>
TextPlain == <<"t", "e", "x", "t", "/", "p", "l", "a", "i", "n">>

\* The header values the servers here send with a resource or in place of
\* one.
SentLocations == {PathB, Origin \o PathB \o Query, BadURL}
SentTags == UNION {{Quote(ETagOf(doc)), ETagOf(doc)} : doc \in Docs}
SentLengths == {<<"1", "2">>, <<"x">>, <<"-", "5">>, <<"+", "5">>}
SentContentTypes == {<<>>, MIMEType, CalendarWithCharset, TextPlain}

\* The conversions of those values, made once.
LocationsParsed == [v \in SentLocations |-> UrlParse(v)]
TagsUnquoted == [v \in SentTags |-> Unquote(v)]
LengthsParsed == [v \in SentLengths |-> ParseInt(v)]
ContentTypesParsed == [v \in SentContentTypes |-> ParseMediaType(v)]

\* The conversion f of the value v: looked up when v is one of the values
\* converted once, made on the spot otherwise.
Converted(known, v, f(_)) == IF v \in DOMAIN known THEN known[v] ELSE f(v)

\* populateCalendarObject(co, h): the object as filled when err is nil (the
\* callers drop the object otherwise).
populateCalendarObject(co, h) ==
    With(Converted(LocationsParsed, h.Location, UrlParse), LAMBDA u :
    With(Converted(TagsUnquoted, h.ETag, Unquote), LAMBDA q :
    With(Converted(LengthsParsed, h.ContentLength, ParseInt), LAMBDA n :
    With(ParseTime(h.LastModified), LAMBDA t :
        IF h.Location # <<>> /\ ~u.ok THEN [co |-> NilObj, err |-> Err("url.Parse")]
        ELSE IF h.ContentLength # <<>> /\ ~n.ok
            THEN [co |-> NilObj, err |-> Err("strconv.ParseInt")]
        ELSE IF h.LastModified.set /\ ~t.ok
            THEN [co |-> NilObj, err |-> Err("http.ParseTime")]
        ELSE [co |-> [co EXCEPT
                        !.Path = IF h.Location # <<>> THEN u.Path ELSE @,
                        !.ETag = IF h.ETag = <<>> THEN @
                                 ELSE IF q.ok THEN q.s ELSE h.ETag,
                        !.ContentLength = IF h.ContentLength # <<>> THEN n.n ELSE @,
                        !.ModTime = IF h.LastModified.set THEN t.t ELSE @],
              err |-> NoErr]))))

\* GetCalendarObject on the response resp of the GET of path (or the
\* transport's failure): the media type of the response decides, not its
\* status, and the object's Path is that of the request the response
\* answers, resp.Request.URL.Path, not the argument.
GetCalendarObject(path, resp) ==
    With(Converted(ContentTypesParsed, resp.ctype, ParseMediaType), LAMBDA mt :
        IF DoError(resp) # NoErr THEN [co |-> NilObj, err |-> DoError(resp)]
        ELSE IF ~mt.ok THEN [co |-> NilObj, err |-> Err("mime.ParseMediaType")]
        ELSE IF ~EqualFold(mt.mediaType, MIMEType)
            THEN [co |-> NilObj, err |-> Err("unexpected Content-Type")]
        ELSE IF resp.body = CorruptBody THEN [co |-> NilObj, err |-> Err("ical.Decode")]
        ELSE populateCalendarObject(
                [CalendarObject(resp.reqPath) EXCEPT !.Data = resp.body], resp.hdr))

(***************************************************************************)
(* The CalDAV server and the transport, as the client sees them.  The      *)
(* server holds at most one document per path; the entity tag of a         *)
(* resource is derived from its document.  The transport hands a response  *)
(* to the caller with its status; it fails when no response arrives and on *)
(* the response of a failing server or gateway (DoError).                  *)
(***************************************************************************)

\* Whether the server's preconditions let a PUT through (RFC 7232).
PreconditionHolds(res, opts) ==
    IF opts.IfMatch # <<>>
    THEN res # NoRes /\ (opts.IfMatch = Star \/ opts.IfMatch = Quote(ETagOf(res)))
    ELSE IF opts.IfNoneMatch # <<>>
    THEN res = NoRes \/ (opts.IfNoneMatch # Star /\ opts.IfNoneMatch # Quote(ETagOf(res)))
    ELSE TRUE

Seconds == 1..(MaxTime \div TicksPerSecond)

\* The headers a server may send for the resource holding doc: none at all,
\* or the usual ones (a quoted entity tag, a length, a date) with at most
\* one of them sent another way or malformed.
ResourceHeaders(doc) ==
    LET usual == [Location |-> <<>>, ETag |-> Quote(ETagOf(doc)),
                  ContentLength |-> <<"1", "2">>, LastModified |-> HTTPDate(1)]
    IN  {NoHeaders, usual}
        \cup {[usual EXCEPT !.Location = l] : l \in SentLocations}
        \cup {[usual EXCEPT !.ETag = ETagOf(doc)]}
        \cup {[usual EXCEPT !.ContentLength = n] : n \in SentLengths}
        \cup {[usual EXCEPT !.LastModified = d] :
                d \in {NoDate, BadDate} \cup {HTTPDate(sec) : sec \in Seconds}}

PutResponse(statusCode, hdr, commit) ==
    [neterr |-> FALSE, status |-> statusCode, hdr |-> hdr, commit |-> commit]

\* What may come back for a PUT of cal with the conditional headers of opts
\* on a path holding res, in the round of the given depth: no response at
\* all; the answer of a conforming server; a server that turns down a write
\* that states no precondition; a gateway that times out.
PutOutcomes(res, cal, opts, d) ==
    {[neterr |-> TRUE, status |-> 0, hdr |-> NoHeaders, commit |-> FALSE]}
    \cup (IF PreconditionHolds(res, opts)
          THEN {PutResponse(IF res = NoRes THEN 201 ELSE 204, h, TRUE) :
                    h \in ResourceHeaders(cal)}
          ELSE {PutResponse(StatusPreconditionFailed, NoHeaders, FALSE)})
    \cup (IF d < MaxDepth /\ opts.IfMatch = <<>> /\ opts.IfNoneMatch = <<>>
          THEN {PutResponse(StatusPreconditionFailed, NoHeaders, FALSE)}
          ELSE {})
    \cup {PutResponse(504, NoHeaders, FALSE)}

\* The path of the URL a request for path is sent to: a path relative to
\* the client's endpoint, the collection, is resolved against it.
ResolveHref(path) ==
    IF path # <<>> /\ path[1] = "/" THEN path ELSE CalendarPath \o path

\* The response to a GET: reqPath is the path of the request it answers,
\* the last one when the HTTP client followed a redirect.
GetResponse(reqPath, statusCode, ctype, body, hdr) ==
    [neterr |-> FALSE, reqPath |-> reqPath, status |-> statusCode, ctype |-> ctype,
     body |-> body, hdr |-> hdr]

\* The paths a server may redirect a GET of path to.
RedirectTargets(path) == Paths \ {ResolveHref(path)}

\* What may come back for a GET of path, holding res: no response; the
\* answer for the resource, or for the lack of it; the resource served at
\* another path after a redirect; a gateway that times out.
GetOutcomes(path, res) ==
    {[neterr |-> TRUE, reqPath |-> ResolveHref(path), status |-> 0, ctype |-> <<>>,
      body |-> NoData, hdr |-> NoHeaders]}
    \cup (IF res = NoRes
          THEN {GetResponse(ResolveHref(path), StatusNotFound, ct, NoData, NoHeaders) :
                    ct \in SentContentTypes \ {MIMEType, CalendarWithCharset}}
          ELSE {GetResponse(ResolveHref(path), 200, ct, res, h) :
                    ct \in {MIMEType, CalendarWithCharset},
                    h \in ResourceHeaders(res)}
               \cup {GetResponse(t, 200, MIMEType, res, h) :
                        t \in RedirectTargets(path), h \in ResourceHeaders(res)}
               \cup {GetResponse(ResolveHref(path), 200, MIMEType, CorruptBody,
                                 NoHeaders)})
    \cup {GetResponse(ResolveHref(path), 504, TextPlain, NoData, NoHeaders)}

\* What may come back for a DELETE on a path holding res: the statuses of
\* a server that removes the resource, and statuses that leave it alone.
DeleteOutcomes(res) ==
    {[neterr |-> TRUE, status |-> 0, commit |-> FALSE]}
    \cup (IF res = NoRes
          THEN {[neterr |-> FALSE, status |-> StatusNotFound, commit |-> FALSE]}
          ELSE {[neterr |-> FALSE, status |-> st, commit |-> TRUE] : st \in {200, 204}})
    \cup {[neterr |-> FALSE, status |-> st, commit |-> FALSE] :
            st \in {202, 207, 301, 403, StatusPreconditionFailed, 423, 500}}

(***************************************************************************)
(* State.                                                                  *)
(***************************************************************************)
VARIABLES
    server,            \* the server: path -> document or NoRes
    conflictResolver,  \* Client.conflictResolver
    pc,                \* where the client's call stands
    call,              \* the call in progress, or the last one made; again: it
                       \* is a Delete of the path the call before deleted
    depth,             \* nested PutCalendarObject rounds of the call
    ret,               \* what the last call returned
    reqs,              \* history: the requests of the call, in order
    wrote,             \* history: writes of the call the server accepted
    fetched,           \* history: the re-fetched object the call returned on
    resolved,          \* history: the call's last Resolve: its decision, which
                       \* of its arguments was modified later (newer), the
                       \* document the re-fetch saw (seen), the ModTime of
                       \* the re-fetched object (seenAt) and what an
                       \* accepted re-write replaced (over)
    status,            \* history: the status of the call's last response
    prevDel,           \* history: path of the call before, if a Delete returning nil
    lastSet,           \* history: the argument of the last SetConflictResolver,
                       \* "none" before the first
    hdrs,              \* history: the headers of the response to the call's
                       \* last PUT
    checked            \* history: the resolver the call found set on its 412,
                       \* until handleConflict has resolved; "nil" otherwise

writeVars == <<server, conflictResolver, pc, call, depth, ret, reqs, wrote,
               fetched, resolved, status, prevDel, lastSet, hdrs, checked>>

NoOpts == [IfMatch |-> <<>>, IfNoneMatch |-> <<>>]
\* The options a caller passes: none, an If-Match on an entity tag, or
\* If-None-Match: *.
PutOptions ==
    {NoOpts, [NoOpts EXCEPT !.IfNoneMatch = Star]}
    \cup {[NoOpts EXCEPT !.IfMatch = Quote(ETagOf(d))] : d \in Docs}

NoCall == [op |-> "none", path |-> <<>>, cal |-> NoData, opts |-> NoOpts,
           again |-> FALSE]
NoDecision == [made |-> FALSE, decision |-> UseLocal, newer |-> "neither",
               seen |-> NoData, seenAt |-> 0, over |-> NoData]
NoRet == [obj |-> NilObj, err |-> NoErr]
Pending == [obj |-> NilObj, err |-> Err("pending")]
\* A request that carries no If-None-Match.
RequestWithoutIfNoneMatch(method, path, opts, body) ==
    [method |-> method, path |-> path, IfMatch |-> opts.IfMatch,
     IfNoneMatch |-> <<>>, body |-> body]

Request(method, path, opts, body) ==
    [method |-> method, path |-> path, IfMatch |-> opts.IfMatch,
     IfNoneMatch |-> opts.IfNoneMatch, body |-> body]

WriteInit ==
    /\ server \in [Paths -> Docs \cup {NoRes}]
    /\ conflictResolver = "nil"
    /\ pc = "idle"
    /\ call = NoCall
    /\ depth = 0
    /\ ret = NoRet
    /\ reqs = <<>>
    /\ wrote = 0
    /\ fetched = NilObj
    /\ resolved = NoDecision
    /\ status = 0
    /\ prevDel = <<>>
    /\ lastSet = "none"
    /\ hdrs = NoHeaders
    /\ checked = "nil"

(***************************************************************************)
(* Synchronisation: the result types and SyncCalendar's reading of a       *)
(* multistatus.                                                            *)
(***************************************************************************)
Contains(s, sub) ==
    \E i \in 0..(Len(s) - Len(sub)) : SubSeq(s, i + 1, i + Len(sub)) = sub
HasSuffix(s, suf) ==
    Len(s) >= Len(suf) /\ SubSeq(s, Len(s) - Len(suf) + 1, Len(s)) = suf
DotIcs == <<".", "i", "c", "s">>

\* The last element of strings.Split(path, "/").
LastPart(path) ==
    LET slashes == {i \in 1..Len(path) : path[i] = "/"}
        last == IF slashes = {} THEN 0
                ELSE CHOOSE i \in slashes : \A j \in slashes : j <= i
    IN  SubSeq(path, last + 1, Len(path))

extractUIDFromPath(path) ==
    LET filename == LastPart(path)
    IN  IF HasSuffix(filename, DotIcs)
        THEN SubSeq(filename, 1, Len(filename) - 4)
        ELSE filename

NilResult == [isNil |-> TRUE]
NewSyncResult(syncToken) ==
    [isNil |-> FALSE, Created |-> <<>>, Updated |-> <<>>, Deleted |-> <<>>,
     SyncToken |-> syncToken]
AddCreated(sr, obj) == [sr EXCEPT !.Created = Append(@, obj)]
\* An AddUpdated that files the object under Created.
AddUpdatedAsCreated(sr, obj) == [sr EXCEPT !.Created = Append(@, obj)]
AddUpdated(sr, obj) == [sr EXCEPT !.Updated = Append(@, obj)]
AddDeleted(sr, path, uid) ==
    [sr EXCEPT !.Deleted = Append(@, [Path |-> path, UID |-> uid])]
TotalChanges(sr) == Len(sr.Created) + Len(sr.Updated) + Len(sr.Deleted)

\* Status lines of a multistatus, and their text.
Text200 == <<"H", "T", "T", "P", "/", "1", ".", "1", " ", "2", "0", "0", " ", "O", "K">>
Text404 == <<"H", "T", "T", "P", "/", "1", ".", "1", " ", "4", "0", "4">>
NoStatus == [set |-> FALSE, Code |-> 0, Text |-> <<>>]
StatusOK == [set |-> TRUE, Code |-> 200, Text |-> Text200]
StatusMissing == [set |-> TRUE, Code |-> StatusNotFound, Text |-> Text404]
NoBytes == "empty"

\* Response.Err of the multistatus package: the response's own status, when
\* it has one, is no success.
ResponseErr(resp) == resp.Status.set /\ resp.Status.Code \div 100 # 2

\* SyncCalendar's loop over the propstats of one response: the status, the
\* entity tag and the calendar data it ends with.
RECURSIVE SyncPropstats(_, _, _)
SyncPropstats(resp, i, acc) ==
    IF i > Len(resp.PropStats) THEN acc
    ELSE IF ResponseErr(resp) THEN SyncPropstats(resp, i + 1, acc)
    ELSE LET ps == resp.PropStats[i]
             a1 == IF ps.hasETag THEN [acc EXCEPT !.etag = ps.ETag] ELSE acc
             a2 == IF ps.hasData THEN [a1 EXCEPT !.calendarData = ps.Data] ELSE a1
             a3 == IF a2.status = <<>>
                   THEN [a2 EXCEPT !.status = ps.Status.Text] ELSE a2
         IN  SyncPropstats(resp, i + 1, a3)

\* A loop that takes the collection's own row for a member.
SyncSkipsRootKept(calendar, resp) == resp.pathErr

\* SyncCalendar's loop: the responses it passes over before reading them.
SyncSkips(calendar, resp) == resp.pathErr \/ resp.Path = calendar

\* A classification that knows only entries with a document.
SyncBranchDocumentsOnly(text, calendarData) ==
    IF Contains(text, <<"4", "0", "4">>) THEN "deleted"
    ELSE IF Contains(text, <<"2", "0", "0">>) /\ calendarData # NoBytes
    THEN "document"
    ELSE "none"

\* SyncCalendar's branch on the status text and the calendar data of an entry.
SyncBranch(text, calendarData) ==
    IF Contains(text, <<"4", "0", "4">>) THEN "deleted"
    ELSE IF Contains(text, <<"2", "0", "0">>) /\ calendarData # NoBytes
    THEN "document"
    ELSE IF Contains(text, <<"2", "0", "0">>) THEN "metadata"
    ELSE "none"

\* A sync that reports every entry with a document as updated.
SyncCreatedNever(text) == FALSE

\* SyncCalendar on an entry with a document: whether it is a created one.
SyncCreated(text) == Contains(text, <<"2", "0", "1">>)

\* A metadata-only object that loses the entity tag.
MetadataObjectWithoutETag(path, etag) == CalendarObject(path)

\* The object SyncCalendar builds for an entry without a document.
MetadataObject(path, etag) == [CalendarObject(path) EXCEPT !.ETag = etag]

\* A derivation that keeps the extension.
DeletedUIDWholeSegment(path) == LastPart(path)

\* The UID SyncCalendar gives a deleted entry.
DeletedUID(path) == extractUIDFromPath(path)

\* One iteration of SyncCalendar's loop over ms.Responses: the result after
\* the response resp, read at the instant now.
SyncResponse(result, calendar, resp, now) ==
    IF SyncSkips(calendar, resp) THEN result
    ELSE
      LET first == [status |-> IF resp.Status.set THEN resp.Status.Text ELSE <<>>,
                    etag |-> <<>>, calendarData |-> NoBytes]
          e == SyncPropstats(resp, 1, first)
          branch == SyncBranch(e.status, e.calendarData)
      IN  IF branch = "deleted"
          THEN AddDeleted(result, resp.Path, DeletedUID(resp.Path))
          ELSE IF branch = "document"
          THEN IF e.calendarData = CorruptBody THEN result
               ELSE LET obj == [CalendarObject(resp.Path) EXCEPT
                                   !.ETag = e.etag, !.Data = e.calendarData,
                                   !.ModTime = now]
                    IN  IF SyncCreated(e.status)
                        THEN AddCreated(result, obj)
                        ELSE AddUpdated(result, obj)
          ELSE IF branch = "metadata"
          THEN AddUpdated(result, MetadataObject(resp.Path, e.etag))
          ELSE result

RECURSIVE SyncResponses(_, _, _, _, _)
SyncResponses(result, calendar, responses, nows, i) ==
    IF i > Len(responses) THEN result
    ELSE SyncResponses(SyncResponse(result, calendar, responses[i], nows[i]),
                       calendar, responses, nows, i + 1)

\* A sync that looks for the HTTPError with a type assertion on the error
\* itself, not along its chain.
SyncErrorOutermost(err) ==
    IF err.kind = "HTTPError" /\ err.code = StatusGone
    THEN ErrSyncTokenExpired
    ELSE err

\* SyncCalendar on the error of SyncCollection: the error it returns.  The
\* HTTPError is looked for along the chain of err, as errors.As does.
SyncError(err) ==
    With(AsHTTPError(err), LAMBDA httpErr :
        IF httpErr # <<>> /\ httpErr[1].code = StatusGone
        THEN ErrSyncTokenExpired
        ELSE err)

\* The traversal depth SyncCalendar asks for: opts.SyncLevel unless opts is
\* nil or the level is the zero value of its type.
SyncLevels == {"DepthZero", "DepthOne", "DepthInfinity"}
NilSyncOptions == [isNil |-> TRUE, SyncLevel |-> "DepthZero"]
SyncOptions == {NilSyncOptions} \cup {[isNil |-> FALSE, SyncLevel |-> l] : l \in SyncLevels}
SyncLevel(opts) ==
    IF ~opts.isNil /\ opts.SyncLevel # "DepthZero" THEN opts.SyncLevel ELSE "DepthOne"

\* A sync that always asks for everything.
SyncRequestWithoutToken(calendar, syncToken, opts) ==
    [method |-> "REPORT", path |-> calendar, token |-> <<>>,
     depth |-> SyncLevel(opts)]

\* The sync-collection REPORT of SyncCalendar(ctx, calendar, syncToken, opts).
SyncRequest(calendar, syncToken, opts) ==
    [method |-> "REPORT", path |-> calendar, token |-> syncToken,
     depth |-> SyncLevel(opts)]

\* SyncCalendar on the outcome o of its one exchange: what it returns.
SyncCalendarResult(calendar, o, nows) ==
    IF o.err # NoErr THEN [result |-> NilResult, err |-> SyncError(o.err)]
    ELSE [result |-> SyncResponses(NewSyncResult(o.ms.SyncToken), calendar,
                                   o.ms.Responses, nows, 1),
          err |-> NoErr]

(***************************************************************************)
(* The server's side of sync-collection (RFC 6578), and SyncCollection of  *)
(* the transport.  The server counts the changes of the collection; the    *)
(* token it hands out names the count it was issued at, and the server     *)
(* forgets old tokens for good.                                            *)
(***************************************************************************)
TokenOf(g) == <<"t", CHOOSE c \in Digits : DigitVal(c) = g>>
IssuedAt(tok) == CHOOSE g \in 0..MaxGen : TokenOf(g) = tok

VARIABLES
    coll,         \* the synced collection: path -> document or NoRes
    gen,          \* changes the collection has seen
    stamp,        \* path -> the change that touched it last
    oldest,       \* the oldest change count whose token the server still knows
    storedToken,  \* the token the caller has persisted
    syncState,    \* NoToken, HasToken or Expired: the caller's view of its token
    syncPc,       \* where the SyncCalendar call stands
    syncCall,     \* the arguments of the last SyncCalendar
    syncRet,      \* what it returned
    syncReqs,     \* history: the requests it sent
    syncResp      \* history: the response to its request

syncVars == <<coll, gen, stamp, oldest, storedToken, syncState, syncPc, syncCall,
              syncRet, syncReqs, syncResp>>

\* The response element for a member: a 404 for a removed one; for a live
\* one a propstat with its entity tag, no property the client did not ask
\* for (UID stands for one) and, as the provider pleases, its
\* document, nothing, or a document that does not parse.
MemberResponse(p, doc, flavour) ==
    IF doc = NoRes
    THEN [pathErr |-> FALSE, Path |-> p, Status |-> StatusMissing, PropStats |-> <<>>]
    ELSE [pathErr |-> FALSE, Path |-> p, Status |-> NoStatus,
          PropStats |-> <<[Status |-> StatusOK, hasETag |-> TRUE, ETag |-> ETagOf(doc),
                           UID |-> <<>>,
                           hasData |-> flavour # "etag",
                           Data |-> CASE flavour = "full" -> doc
                                      [] flavour = "corrupt" -> CorruptBody
                                      [] OTHER -> NoBytes]>>]

\* What may precede the members: nothing, the collection's own row, or a
\* response whose href cannot be read.
LeadingResponses(calendar) ==
    {<<>>,
     <<[pathErr |-> FALSE, Path |-> calendar, Status |-> NoStatus,
        PropStats |-> <<[Status |-> StatusOK, hasETag |-> FALSE, ETag |-> <<>>,
                         UID |-> <<>>, hasData |-> FALSE, Data |-> NoBytes]>>]>>,
     <<[pathErr |-> TRUE, Path |-> <<>>, Status |-> NoStatus, PropStats |-> <<>>]>>}

\* The members a sync from tok reports: all live ones on an empty token,
\* else those touched since the token was issued.
ChangedSince(tok) ==
    IF tok = <<>> THEN {p \in Paths : coll[p] # NoRes}
    ELSE {p \in Paths : stamp[p] > IssuedAt(tok)}

TokenKnown(tok) ==
    tok = <<>> \/ \E g \in oldest..gen : TokenOf(g) = tok

NilMultiStatus == [SyncToken |-> <<>>, Responses |-> <<>>]

\* The error SyncCollection returns for a response with the status st: the
\* HTTPError of the response, bare or wrapped by a layer of the transport.
StatusErrors(st) ==
    {HTTPError(st), Wrap("sync-collection", HTTPError(st))}

\* What SyncCollection may return for a request with the token tok: a
\* transport failure; the multistatus of a conforming server, or its 410 for
\* a token it no longer knows; a refusal.
SyncOutcomes(calendar, tok) ==
    {[err |-> TransportError, status |-> 0, ms |-> NilMultiStatus]}
    \cup (IF TokenKnown(tok)
          THEN {[err |-> NoErr, status |-> StatusMultiStatus,
                 ms |-> [SyncToken |-> TokenOf(gen),
                         Responses |->
                            LET changed == SelectSeq(<<PathA, PathB>>,
                                            LAMBDA p : p \in ChangedSince(tok))
                            IN  lead \o [i \in 1..Len(changed) |->
                                    MemberResponse(changed[i], coll[changed[i]],
                                                   flavour)]]] :
                    lead \in LeadingResponses(calendar),
                    flavour \in {"full", "etag", "corrupt"}}
          ELSE {[err |-> e, status |-> StatusGone, ms |-> NilMultiStatus] :
                    e \in StatusErrors(StatusGone)})
    \cup UNION {{[err |-> e, status |-> st, ms |-> NilMultiStatus] :
                    e \in StatusErrors(st)} : st \in {403, 507}}

\* The instants time.Now() may give over n reads in a row.
NowsFor(n) ==
    {s \in [1..n -> 1..MaxTime] : \A i \in 1..n : \A j \in i..n : s[i] <= s[j]}

NoSyncCall == [calendar |-> <<>>, token |-> <<>>, opts |-> NilSyncOptions]
NoSyncRet == [result |-> NilResult, err |-> NoErr]
NoSyncResp == [status |-> 0, token |-> <<>>, n |-> 0, responses |-> <<>>]

SyncInit ==
    /\ coll \in [Paths -> Docs \cup {NoRes}]
    /\ gen = 0
    /\ stamp = [p \in Paths |-> 0]
    /\ oldest = 0
    /\ storedToken = <<>>
    /\ syncState = "NoToken"
    /\ syncPc = "idle"
    /\ syncCall = NoSyncCall
    /\ syncRet = NoSyncRet
    /\ syncReqs = <<>>
    /\ syncResp = NoSyncResp

(***************************************************************************)
(* The built-in resolvers applied as functions.                            *)
(***************************************************************************)
VARIABLES
    builtin,      \* the built-in resolver applied
    localArg,     \* its first argument
    remoteArg,    \* its second argument
    decided       \* its result, once applied

resolveVars == <<builtin, localArg, remoteArg, decided>>

NotApplied == [applied |-> FALSE, decision |-> UseLocal]
\* The objects a resolver is applied to: nil, or an object with any
\* modification time, the zero time included.
ResolverArgs ==
    {NilObj} \cup {[CalendarObject(PathA) EXCEPT !.ModTime = t, !.Data = d] :
                        t \in 0..MaxTime, d \in Docs}

ResolveInit ==
    /\ builtin \in BuiltinResolvers
    /\ localArg \in ResolverArgs
    /\ remoteArg \in ResolverArgs
    /\ decided = NotApplied

(***************************************************************************)
(* SyncCalendar's reading of a multistatus as a function of the            *)
(* multistatus: the responses a server may send, one at a time or next to  *)
(* another one.                                                            *)
(***************************************************************************)
VARIABLES
    clsResponses,  \* ms.Responses
    clsResult      \* what SyncCalendar returned for them, once called

classifyVars == <<clsResponses, clsResult>>

Text200201 == Text200 \o <<" ", "2", "0", "1">>
Text201 == <<"H", "T", "T", "P", "/", "1", ".", "1", " ", "2", "0", "1">>
StatusBoth == [set |-> TRUE, Code |-> 200, Text |-> Text200201]
StatusCreated == [set |-> TRUE, Code |-> 201, Text |-> Text201]
\* A property the server sends although the client did not ask for it.
SuppliedUID == <<"u">>

\* The properties of one propstat: an entity tag alone, or with a document,
\* or with a document that does not parse; an empty calendar-data element;
\* none of these.
PropOf(st, payload, uid) ==
    [Status |-> st,
     hasETag |-> payload \in {"etag", "doc", "corrupt"},
     ETag |-> IF payload \in {"etag", "doc", "corrupt"} THEN ETagOf("1") ELSE <<>>,
     UID |-> uid,
     hasData |-> payload \in {"doc", "corrupt", "emptydata"},
     Data |-> CASE payload = "doc" -> "1"
                [] payload = "corrupt" -> CorruptBody
                [] OTHER -> NoBytes]

PropStatShapes ==
    {<<>>}
    \cup {<<PropOf(st, payload, uid)>> :
            st \in {StatusOK, StatusMissing, StatusBoth, StatusCreated},
            payload \in {"etag", "doc", "corrupt", "emptydata", "nothing"},
            uid \in {<<>>, SuppliedUID}}
    \cup {<<PropOf(StatusOK, "etag", <<>>), PropOf(StatusMissing, "emptydata", <<>>)>>,
          <<PropOf(StatusMissing, "emptydata", <<>>), PropOf(StatusOK, "etag", <<>>)>>,
          <<PropOf(StatusOK, "doc", <<>>), PropOf(StatusMissing, "nothing", <<>>)>>,
          <<PropOf(StatusMissing, "nothing", <<>>), PropOf(StatusOK, "doc", <<>>)>>}

ResponseShapes ==
    {[pathErr |-> FALSE, Path |-> p, Status |-> st, PropStats |-> ps] :
        p \in {CalendarPath, PathA, PathB},
        st \in {NoStatus, StatusOK, StatusMissing, StatusBoth, StatusCreated},
        ps \in PropStatShapes}
    \cup {[pathErr |-> TRUE, Path |-> <<>>, Status |-> st, PropStats |-> ps] :
            st \in {NoStatus, StatusMissing}, ps \in PropStatShapes}

\* The responses another one is put next to: a removed member, a changed
\* one with its document, the collection's own row.
CompanionResponses ==
    {[pathErr |-> FALSE, Path |-> PathB, Status |-> StatusMissing, PropStats |-> <<>>],
     [pathErr |-> FALSE, Path |-> PathA, Status |-> NoStatus,
      PropStats |-> <<[Status |-> StatusOK, hasETag |-> TRUE, ETag |-> ETagOf("2"),
                       UID |-> <<>>, hasData |-> TRUE, Data |-> "2"]>>],
     [pathErr |-> FALSE, Path |-> CalendarPath, Status |-> NoStatus,
      PropStats |-> <<[Status |-> StatusOK, hasETag |-> TRUE, ETag |-> ETagOf("2"),
                       UID |-> <<>>, hasData |-> FALSE, Data |-> NoBytes]>>]}

NotClassified == [applied |-> FALSE, result |-> NilResult, err |-> NoErr, nows |-> <<>>]

ClassifyInit ==
    /\ clsResponses \in {<<e>> : e \in ResponseShapes}
            \cup {<<e, f>> : e \in ResponseShapes, f \in CompanionResponses}
            \cup {<<f, e>> : e \in ResponseShapes, f \in CompanionResponses}
    /\ clsResult = NotClassified

(***************************************************************************)
(* decodeCalendarObjectList: the objects QueryCalendar and                 *)
(* MultiGetCalendar build from the multistatus of their REPORT.            *)
(***************************************************************************)
VARIABLES
    decResponses,  \* ms.Responses of the REPORT's answer
    decRet         \* what the call returned, once made

decodeVars == <<decResponses, decRet>>

MaxResponses == 3

\* The errors of the listing calls: which one, and the entries it is about.
ListErr(kind, what) == [kind |-> kind, what |-> what]
NoListErr == ListErr("nil", <<>>)

\* Response.DecodeProp: the value of a property of the entry, a not-found
\* error when the entry has none, another error when it cannot be read.
Found(val) == [res |-> "ok", val |-> val]
NotFound(zero) == [res |-> "notfound", val |-> zero]
Undecodable(zero) == [res |-> "error", val |-> zero]
DecodeProp(resp, name) == resp.props[name]
IsNotFound(r) == r.res = "notfound"

FullProps(data) ==
    [calendarData |-> Found(data), getlastmodified |-> Found(1),
     getetag |-> Found(ETagOf("1")), getcontentlength |-> Found(<<"2">>)]
BareProps(data) ==
    [calendarData |-> Found(data), getlastmodified |-> NotFound(0),
     getetag |-> NotFound(<<>>), getcontentlength |-> NotFound(Zero)]

\* The entries of a REPORT's answer: with an href that cannot be read, with
\* a document and all or none of the other properties, without calendar
\* data, with properties or a document that cannot be read.
ListEntryShapes ==
    {[pathErr |-> TRUE, Path |-> <<>>, props |-> FullProps(d)] : d \in {"1", CorruptBody}}
    \cup {[pathErr |-> FALSE, Path |-> p, props |-> FullProps("1")] : p \in {PathA, PathB}}
    \cup {[pathErr |-> FALSE, Path |-> PathB, props |-> BareProps("2")],
          [pathErr |-> FALSE, Path |-> CalendarPath,
           props |-> [BareProps(NoBytes) EXCEPT !.calendarData = NotFound(NoBytes)]],
          [pathErr |-> FALSE, Path |-> PathA,
           props |-> [BareProps(NoBytes) EXCEPT !.calendarData = Undecodable(NoBytes)]],
          [pathErr |-> FALSE, Path |-> PathA,
           props |-> [FullProps("1") EXCEPT !.getetag = Undecodable(<<>>)]],
          [pathErr |-> FALSE, Path |-> PathA,
           props |-> [FullProps(CorruptBody) EXCEPT !.getlastmodified = Undecodable(0)]],
          [pathErr |-> FALSE, Path |-> PathA, props |-> FullProps(CorruptBody)]}

\* The error of Response.Path, of DecodeProp and of the iCalendar decoder on
\* the entry at position i of the answer.
PathError(i) == ListErr("path", <<i>>)
PropError(i) == ListErr("prop", <<i>>)
IcalError(i) == ListErr("ical", <<i>>)

\* errors.Join, of the path errors of the entries at the positions errs: nil
\* when there is nothing to join.
Join(errs) == IF errs = <<>> THEN NoListErr ELSE ListErr("join", errs)

\* A decoder that forgets the error of a path.
OnPathErrorDropped(errs, i) == errs

\* decodeCalendarObjectList on an entry whose path cannot be extracted: the
\* errors it goes on with.
OnPathError(errs, i) == errs \o PathError(i).what

\* A decoder that returns what it had built next to the error.
OnDecodeErrorKeepsObjects(addrs, err) == [isNil |-> FALSE, objs |-> addrs, err |-> err]

\* decodeCalendarObjectList on an error of DecodeProp or of the iCalendar
\* decoder: what it returns.
OnDecodeError(addrs, err) == [isNil |-> TRUE, objs |-> <<>>, err |-> err]

\* A decoder that takes a property the entry does not have for an error.
PropFailsWhenAbsent(r) == r.res # "ok"

\* decodeCalendarObjectList on the result of DecodeProp: an error other than
\* not-found stops it.
PropFails(r) == r.res # "ok" /\ ~IsNotFound(r)

RECURSIVE decodeCalendarObjectListFrom(_, _, _, _)
decodeCalendarObjectListFrom(responses, i, addrs, errs) ==
    IF i > Len(responses)
    THEN [isNil |-> FALSE, objs |-> addrs, err |-> Join(errs)]
    ELSE
      LET resp == responses[i]
          calData == DecodeProp(resp, "calendarData")
          getLastMod == DecodeProp(resp, "getlastmodified")
          getETag == DecodeProp(resp, "getetag")
          getContentLength == DecodeProp(resp, "getcontentlength")
          Fails(r) == PropFails(r)
      IN  IF resp.pathErr
          THEN decodeCalendarObjectListFrom(responses, i + 1, addrs, OnPathError(errs, i))
          ELSE IF Fails(calData) THEN OnDecodeError(addrs, PropError(i))
          ELSE IF calData.val = NoBytes
          THEN decodeCalendarObjectListFrom(responses, i + 1, addrs, errs)
          ELSE IF Fails(getLastMod) \/ Fails(getETag) \/ Fails(getContentLength)
          THEN OnDecodeError(addrs, PropError(i))
          ELSE IF calData.val = CorruptBody THEN OnDecodeError(addrs, IcalError(i))
          ELSE decodeCalendarObjectListFrom(responses, i + 1,
                    Append(addrs, [isNil |-> FALSE, Path |-> resp.Path,
                                   ETag |-> getETag.val,
                                   ModTime |-> getLastMod.val,
                                   ContentLength |-> getContentLength.val,
                                   Data |-> calData.val]),
                    errs)

decodeCalendarObjectList(ms) == decodeCalendarObjectListFrom(ms.Responses, 1, <<>>, <<>>)

\* DoMultiStatus of the transport: the multistatus, or an error.
ListOutcomes(responses) ==
    {[err |-> NoListErr, ms |-> [Responses |-> responses]],
     [err |-> ListErr("transport", <<>>), ms |-> [Responses |-> <<>>]]}

\* QueryCalendar and MultiGetCalendar on the outcome of their REPORT.
ListResult(o) ==
    IF o.err # NoListErr THEN [isNil |-> TRUE, objs |-> <<>>, err |-> o.err]
    ELSE decodeCalendarObjectList(o.ms)

NotListed == [op |-> "none", failed |-> FALSE, isNil |-> TRUE, objs |-> <<>>, err |-> NoListErr]

DecodeInit ==
    /\ decResponses \in UNION {[1..n -> ListEntryShapes] : n \in 1..MaxResponses}
    /\ decRet = NotListed

(***************************************************************************)
(* The requests of the listing calls: the filter tree of a CalendarQuery,  *)
(* the time range of QueryOptions, and their encoding.                     *)
(***************************************************************************)
VARIABLES
    query,      \* the caller's CalendarQuery, as the caller sees it
    listCalls,  \* the number of listing calls made
    sent        \* the last listing call: its options and the REPORT it sent

queryVars == <<query, listCalls, sent>>

MaxCalls == 2

\* time.Time: an instant and the location it is given in.  The zero time is
\* the instant 0.
Time(sec, loc) == [sec |-> sec, loc |-> loc]
ZeroTime == Time(0, "UTC")
IsZero(t) == t.sec = 0

\* dateWithUTCTime, as it is written into the request: the same instant, in
\* UTC.
dateWithUTCTime(t) == Time(t.sec, "UTC")

\* *time.Time.
NilTime == [isNil |-> TRUE, t |-> ZeroTime]
PtrTo(t) == [isNil |-> FALSE, t |-> t]

\* *QueryOptions (SyncToken is not read).
NilQueryOptions == [isNil |-> TRUE, TimeRangeStart |-> NilTime, TimeRangeEnd |-> NilTime]
QueryTimes == {Time(2, "Local"), Time(3, "UTC")}
TimePointers == {NilTime, PtrTo(ZeroTime)} \cup {PtrTo(t) : t \in QueryTimes}
QueryOptionsSet ==
    {NilQueryOptions}
    \cup {[isNil |-> FALSE, TimeRangeStart |-> a, TimeRangeEnd |-> b] :
            a \in TimePointers, b \in TimePointers}

\* CompFilter and PropFilter (without text match and parameter filters).
PropFilter(name, start, end) == [Name |-> name, Start |-> start, End |-> end]
CompFilter(name, start, end, comps, props) ==
    [Name |-> name, Start |-> start, End |-> end, Comps |-> comps, Props |-> props]

\* The filter trees a caller builds: a VCALENDAR root, with or without a
\* range of its own, over at most two children, VEVENT or VTODO, with or
\* without a range, a VEVENT child or a property filter of their own.
ChildFilters ==
    {CompFilter(name, r[1], r[2], sub[1], sub[2]) :
        name \in {"VEVENT", "VTODO"},
        r \in {<<ZeroTime, ZeroTime>>, <<Time(1, "UTC"), Time(2, "UTC")>>},
        sub \in {<< <<>>, <<>> >>,
                 << <<CompFilter("VEVENT", ZeroTime, ZeroTime, <<>>, <<>>)>>, <<>> >>,
                 << <<>>, <<PropFilter("DTSTART", Time(1, "UTC"), ZeroTime)>> >>}}
FilterTrees ==
    {CompFilter("VCALENDAR", r[1], r[2], comps, <<>>) :
        r \in {<<ZeroTime, ZeroTime>>, <<Time(1, "UTC"), Time(2, "UTC")>>},
        comps \in {<<>>} \cup {<<a>> : a \in ChildFilters}
                    \cup {<<a, b>> : a \in ChildFilters, b \in ChildFilters}}

\* CalendarCompRequest: the components and properties asked for.
CompRequest(name, comps) ==
    [Name |-> name, AllProps |-> FALSE, Props |-> <<>>, AllComps |-> FALSE,
     Comps |-> comps, Expand |-> "nil"]
ReadmeCompRequest == CompRequest("VCALENDAR", <<CompRequest("VEVENT", <<>>)>>)
CalendarQuery(filter) == [CompRequest |-> ReadmeCompRequest, CompFilter |-> filter]
ReadmeQuery ==
    CalendarQuery(CompFilter("VCALENDAR", ZeroTime, ZeroTime,
                    <<CompFilter("VEVENT", ZeroTime, ZeroTime, <<>>, <<>>)>>, <<>>))

RECURSIVE encodeCalendarCompReq(_)
encodeCalendarCompReq(c) ==
    [Name |-> c.Name, Allprop |-> c.AllProps, Prop |-> c.Props,
     Allcomp |-> c.AllComps,
     Comp |-> [i \in 1..Len(c.Comps) |-> encodeCalendarCompReq(c.Comps[i])]]

encodeExpandRequest(e) == e

\* encodeCalendarReq: calendar-data with the components asked for, and the
\* last-modified and entity tag properties.
encodeCalendarReq(c) ==
    [calendarData |-> [Comp |-> encodeCalendarCompReq(c),
                       Expand |-> encodeExpandRequest(c.Expand)],
     others |-> <<"getlastmodified", "getetag">>]

\* The time-range element of an encoded filter: none when both ends are the
\* zero time.
NoTimeRange == [isNil |-> TRUE, Start |-> ZeroTime, End |-> ZeroTime]
TimeRangeOf(start, end) ==
    IF ~IsZero(start) \/ ~IsZero(end)
    THEN [isNil |-> FALSE, Start |-> dateWithUTCTime(start), End |-> dateWithUTCTime(end)]
    ELSE NoTimeRange

encodePropFilter(filter) ==
    [Name |-> filter.Name, TimeRange |-> TimeRangeOf(filter.Start, filter.End),
     TextMatch |-> "nil", ParamFilter |-> <<>>]

RECURSIVE encodeCompFilter(_)
encodeCompFilter(filter) ==
    [Name |-> filter.Name,
     TimeRange |-> TimeRangeOf(filter.Start, filter.End),
     CompFilters |-> [i \in 1..Len(filter.Comps) |-> encodeCompFilter(filter.Comps[i])],
     PropFilters |-> [i \in 1..Len(filter.Props) |-> encodePropFilter(filter.Props[i])]]

\* A search that keeps the last child of the name.
LastVEVENT(comps) ==
    IF \E i \in 1..Len(comps) : comps[i].Name = "VEVENT"
    THEN CHOOSE i \in 1..Len(comps) :
            /\ comps[i].Name = "VEVENT"
            /\ \A j \in 1..Len(comps) : comps[j].Name = "VEVENT" => j <= i
    ELSE 0

\* QueryCalendar's loop over the children of the root filter: the index it
\* breaks at, 0 when it runs to the end.
FirstVEVENT(comps) ==
    IF \E i \in 1..Len(comps) : comps[i].Name = "VEVENT"
    THEN CHOOSE i \in 1..Len(comps) :
            /\ comps[i].Name = "VEVENT"
            /\ \A j \in 1..Len(comps) : comps[j].Name = "VEVENT" => i <= j
    ELSE 0

\* QueryCalendar before it encodes: modifiedQuery after the range of the
\* options was written into it, and whether the call ended in the run-time
\* panic of reading through a nil pointer (the start is read and written
\* before the end is read).
ApplyTimeRange(q, opts) ==
    LET i == FirstVEVENT(q.CompFilter.Comps)
    IN  IF opts.isNil \/ (opts.TimeRangeStart.isNil /\ opts.TimeRangeEnd.isNil) \/ i = 0
        THEN [query |-> q, panicked |-> FALSE]
        ELSE IF opts.TimeRangeStart.isNil
        THEN [query |-> q, panicked |-> TRUE]
        ELSE IF opts.TimeRangeEnd.isNil
        THEN [query |-> [q EXCEPT !.CompFilter.Comps[i].Start = opts.TimeRangeStart.t],
              panicked |-> TRUE]
        ELSE [query |-> [q EXCEPT !.CompFilter.Comps[i].Start = opts.TimeRangeStart.t,
                                  !.CompFilter.Comps[i].End = opts.TimeRangeEnd.t],
              panicked |-> FALSE]

\* The caller's query after modifiedQuery := *query was written to: the
\* fields of the struct are the caller's own, the elements of the Comps slice
\* are the ones the copy wrote to.
CallersView(original, modified) ==
    [original EXCEPT !.CompFilter.Comps = modified.CompFilter.Comps]

\* The REPORT requests of the listing calls.
NoFilter == "none"
NoRequest ==
    [method |-> "none", path |-> <<>>, Depth |-> "", Prop |-> "none",
     Filter |-> NoFilter, Hrefs |-> <<>>]
QueryRequest(calendar, q) ==
    [method |-> "REPORT", path |-> calendar, Depth |-> "1",
     Prop |-> encodeCalendarReq(q.CompRequest),
     Filter |-> encodeCompFilter(q.CompFilter), Hrefs |-> <<>>]
MultiGetRequest(path, multiGet) ==
    [method |-> "REPORT", path |-> path, Depth |-> "1",
     Prop |-> encodeCalendarReq(multiGet.CompRequest),
     Filter |-> NoFilter,
     Hrefs |-> IF Len(multiGet.Paths) = 0 THEN <<path>> ELSE multiGet.Paths]

NotSent == [op |-> "none", opts |-> NilQueryOptions, panicked |-> FALSE, req |-> NoRequest]

QueryInit ==
    /\ query \in {CalendarQuery(f) : f \in FilterTrees}
    /\ listCalls = 0
    /\ sent = NotSent

(***************************************************************************)
(* The result types on their own: a SyncResult as its methods build it,    *)
(* and SyncDeletedItem.ExtractUID.                                         *)
(***************************************************************************)
VARIABLES
    madeResult,      \* a SyncResult made by NewSyncResult
    extracted,  \* the last ExtractUID: the item and what it returned
    addCalls    \* history: the token it was made with, the Add calls made on it

resultVars == <<madeResult, extracted, addCalls>>

MaxItems == 2

\* The paths and UIDs a caller may pass: no directory or one, and a file
\* name that is empty, plain, with the extension, the extension alone, or
\* its letters alone.
ItemPaths ==
    {dir \o file : dir \in {<<>>, CalendarPath},
                   file \in {<<>>, <<"a">>, <<"a">> \o DotIcs, DotIcs, <<"i", "c", "s">>}}
ItemUIDs == {<<>>, SuppliedUID}

\* SyncDeletedItem.ExtractUID.
ExtractUID(sdi) ==
    IF sdi.UID # <<>> THEN sdi.UID
    ELSE IF sdi.Path = <<>> THEN <<>>
    ELSE LET slashes == {i \in 1..Len(sdi.Path) : sdi.Path[i] = "/"}
             lastSlash == IF slashes = {} THEN 0
                          ELSE CHOOSE i \in slashes : \A j \in slashes : j <= i
             filename == SubSeq(sdi.Path, lastSlash + 1, Len(sdi.Path))
         IN  IF Len(filename) > 4
                /\ SubSeq(filename, Len(filename) - 3, Len(filename)) = DotIcs
             THEN SubSeq(filename, 1, Len(filename) - 4)
             ELSE filename

NotExtracted == [applied |-> FALSE, item |-> [Path |-> <<>>, UID |-> <<>>], uid |-> <<>>]

ResultInit ==
    /\ \E tok \in {<<>>, TokenOf(1)} :
        /\ madeResult = NewSyncResult(tok)
        /\ addCalls = [token |-> tok, calls |-> <<>>]
    /\ extracted = NotExtracted

(***************************************************************************)
(* The caller's notes of the entity tags its Puts returned, path by path.  *)
(***************************************************************************)
VARIABLES
    kept   \* path -> the entity tags of the objects returned for it so far

keepVars == <<kept>>

KeepInit == kept = [p \in Paths |-> {}]

(***************************************************************************)
(* The entity tags of two responses, as the objects built from them carry  *)
(* them.                                                                   *)
(***************************************************************************)
VARIABLES
    tagA, tagB,  \* the ETag headers of two responses
    tagged       \* the call made on both, and the ETag of each object

tagVars == <<tagA, tagB, tagged>>

\* The ETag headers servers send: none, a tag in double quotes or bare, a
\* weak tag, a tag in single quotes, a lone quote, a quote inside the quotes,
\* a tag between grave accents, nothing in single quotes, an escaped quote,
\* a tag written with a hexadecimal and with an octal escape.
ServerTags ==
    {<<>>, ETagOf("1"), Quote(ETagOf("1")), ETagOf("2"), Quote(ETagOf("2")),
     <<"e">>, <<"'", "e", "'">>, <<"W", "/">> \o Quote(ETagOf("1")),
     <<DQ>>, Quote(<<"e", DQ, "1">>),
     <<BQ>> \o ETagOf("1") \o <<BQ>>, <<"'", "'">>, Quote(<<"e", "\\", DQ, "1">>),
     Quote(<<"\\", "x", "6", "5">>), Quote(<<"\\", "1", "4", "5", "1">>)}

\* The paths the two calls are made with: absolute, or relative to the
\* client's endpoint.
RelativeA == <<"a", ".", "i", "c", "s">>
TagPaths == {PathA, RelativeA}

NotTagged == [op |-> "none", a |-> <<>>, b |-> <<>>, arg |-> <<>>, path |-> <<>>]

TagInit ==
    /\ tagA \in ServerTags
    /\ tagB \in ServerTags
    /\ tagged = NotTagged

(***************************************************************************)
(* Two QueryCalendar calls running at once on one CalendarQuery value.     *)
(* Each call goes through its statements one at a time; the elements of    *)
(* the Comps slice are shared by the caller's query and the copies the     *)
(* calls make of it.                                                       *)
(***************************************************************************)
VARIABLES
    givenQuery,   \* the CalendarQuery both calls were given, as it was then
    sharedComps,  \* the elements of its CompFilter.Comps, as they are now
    racing        \* call -> its options, where it stands, what it read and sent

raceVars == <<givenQuery, sharedComps, racing>>

Callers == {1, 2}

\* The queries given: a VCALENDAR root over a VEVENT child, over a VTODO
\* and a VEVENT child, over a VTODO child alone.
RaceQueries ==
    {CalendarQuery(CompFilter("VCALENDAR", ZeroTime, ZeroTime, comps, <<>>)) :
        comps \in {<<CompFilter("VEVENT", ZeroTime, ZeroTime, <<>>, <<>>)>>,
                   <<CompFilter("VTODO", ZeroTime, ZeroTime, <<>>, <<>>),
                     CompFilter("VEVENT", ZeroTime, ZeroTime, <<>>, <<>>)>>,
                   <<CompFilter("VTODO", ZeroTime, ZeroTime, <<>>, <<>>)>>}}

\* The options given: none, or one of two ranges.
RaceOptions ==
    {NilQueryOptions,
     [isNil |-> FALSE, TimeRangeStart |-> PtrTo(Time(2, "Local")),
      TimeRangeEnd |-> PtrTo(Time(3, "UTC"))],
     [isNil |-> FALSE, TimeRangeStart |-> PtrTo(Time(4, "UTC")),
      TimeRangeEnd |-> PtrTo(Time(5, "UTC"))]}

RaceInit ==
    /\ givenQuery \in RaceQueries
    /\ sharedComps = givenQuery.CompFilter.Comps
    /\ racing \in [Callers -> {[opts |-> o, pc |-> "called", at |-> 0, seen |-> <<>>,
                               req |-> NoRequest] : o \in RaceOptions}]

vars == <<writeVars, syncVars, resolveVars, classifyVars, decodeVars, queryVars, resultVars,
         keepVars, tagVars,
         raceVars>>
otherThanWrite == <<syncVars, resolveVars, classifyVars, decodeVars, queryVars, resultVars, keepVars, tagVars, raceVars>>
otherThanSync == <<writeVars, resolveVars, classifyVars, decodeVars, queryVars, resultVars, keepVars, tagVars, raceVars>>
otherThanResolve == <<writeVars, syncVars, classifyVars, decodeVars, queryVars, resultVars, keepVars, tagVars, raceVars>>
otherThanClassify == <<writeVars, syncVars, resolveVars, decodeVars, queryVars, resultVars, keepVars, tagVars, raceVars>>
otherThanDecode == <<writeVars, syncVars, resolveVars, classifyVars, resultVars, keepVars, tagVars, raceVars>>
otherThanWriteAndKept == <<syncVars, resolveVars, classifyVars, decodeVars, queryVars, resultVars, tagVars, raceVars>>
otherThanTag ==
    <<writeVars, syncVars, resolveVars, classifyVars, decodeVars, queryVars, resultVars, keepVars, raceVars>>
otherThanRace ==
    <<writeVars, syncVars, resolveVars, classifyVars, decodeVars, queryVars, resultVars, keepVars,
      tagVars>>
otherThanResult == <<writeVars, syncVars, resolveVars, classifyVars, decodeVars, queryVars, keepVars, tagVars, raceVars>>

(***************************************************************************)
(* The write path (client.go).                                             *)
(***************************************************************************)
\* A setter that nil does not turn off.
AssignResolverUnlessNil(current, resolver) ==
    IF resolver = "nil" THEN current ELSE resolver

\* The assignment of SetConflictResolver: the field afterwards.
AssignResolver(current, resolver) == resolver

\* SetConflictResolver, which any goroutine may call at any time.
SetConflictResolver(resolver) ==
    /\ pc \notin {"returned", "crashed"}
    /\ conflictResolver' = AssignResolver(conflictResolver, resolver)
    /\ lastSet' = resolver
    /\ UNCHANGED <<server, pc, call, depth, ret, reqs, wrote, fetched, resolved,
                   status, prevDel, hdrs, checked>>
    /\ UNCHANGED otherThanWrite

\* A client that enters handleConflict whether or not a resolver is set.
ResolverIsSetAlways(resolver) == TRUE

\* PutCalendarObject on a 412: whether handleConflict is entered.
ResolverIsSet(resolver) == resolver # "nil"

\* A Put that keeps the path it was called with.
PutResultOfRequestPath(path, hdr) ==
    With(populateCalendarObject(CalendarObject(path), [hdr EXCEPT !.Location = <<>>]),
         LAMBDA r : [obj |-> r.co, err |-> r.err])

\* A Put that leaves the entity tag out of the object.
PutResultWithoutETag(path, hdr) ==
    With(populateCalendarObject(CalendarObject(path), [hdr EXCEPT !.ETag = <<>>]),
         LAMBDA r : [obj |-> r.co, err |-> r.err])

\* PutCalendarObject on a response that is no 412: the object built from
\* the response headers, or the error of populateCalendarObject.
PutResult(path, hdr) ==
    With(populateCalendarObject(CalendarObject(path), hdr), LAMBDA r :
        [obj |-> r.co, err |-> r.err])

\* One round of PutCalendarObject(path, cal, opts) from the request on (the
\* server answers to the headers and the body of the request): the
\* round d of the call, after the requests log and w accepted writes.  The
\* history of the last Resolve is dropped when the round enters
\* handleConflict.
PutRound(path, cal, opts, d, log, w) ==
    \E o \in PutOutcomes(server[path], Request("PUT", path, opts, cal).body,
                         Request("PUT", path, opts, cal), d) :
        /\ reqs' = Append(log, Request("PUT", path, opts, cal))
        /\ server' = IF o.commit THEN [server EXCEPT ![path] = cal] ELSE server
        /\ wrote' = IF o.commit THEN w + 1 ELSE w
        /\ status' = o.status
        /\ hdrs' = o.hdr
        /\ depth' = d
        /\ IF DoError(o) # NoErr
           THEN /\ pc' = "returned"
                /\ ret' = [obj |-> NilObj, err |-> DoError(o)]
                /\ resolved' = IF d = 0 THEN NoDecision ELSE resolved
                /\ checked' = "nil"
           ELSE IF o.status = StatusPreconditionFailed
           THEN IF ResolverIsSet(conflictResolver)
                THEN /\ pc' = "handleConflict"
                     /\ ret' = Pending
                     /\ resolved' = NoDecision
                     /\ checked' = conflictResolver
                ELSE /\ pc' = "returned"
                     /\ ret' = [obj |-> NilObj, err |-> ErrPreconditionFailed]
                     /\ resolved' = IF d = 0 THEN NoDecision ELSE resolved
                     /\ checked' = "nil"
           ELSE /\ pc' = "returned"
                /\ checked' = "nil"
                /\ ret' = PutResult(path, o.hdr)
                /\ resolved' = IF d = 0 THEN NoDecision
                               ELSE [resolved EXCEPT
                                        !.over = IF o.commit THEN server[path]
                                                 ELSE NoData]

\* A caller's PutCalendarObject(ctx, path, cal, opts), up to the response
\* to its request.
PutCalendarObject(path, cal, opts) ==
    /\ pc = "idle"
    /\ call' = [op |-> "Put", path |-> path, cal |-> cal, opts |-> opts,
                again |-> FALSE]
    /\ fetched' = NilObj
    /\ prevDel' = <<>>
    /\ UNCHANGED <<conflictResolver, lastSet>>
    /\ IF cal = InvalidCal
       THEN /\ ret' = [obj |-> NilObj, err |-> Err("ical.Encode")]
            /\ resolved' = NoDecision
            /\ reqs' = <<>>
            /\ wrote' = 0
            /\ status' = 0
            /\ depth' = 0
            /\ hdrs' = NoHeaders
            /\ checked' = "nil"
            /\ pc' = "returned"
            /\ UNCHANGED server
       ELSE PutRound(path, cal, opts, 0, <<>>, 0)
    /\ UNCHANGED otherThanWrite

\* A switch whose UseRemote case falls into the re-write.
ConflictOutcomeRemoteRewrites(decision, remote) ==
    CASE decision \in {UseLocal, UseRemote} -> [next |-> "rewrite", ret |-> Pending]
      [] decision = Skip ->
            [next |-> "returned", ret |-> [obj |-> NilObj, err |-> ErrPreconditionFailed]]
      [] decision = Merge ->
            [next |-> "returned", ret |-> [obj |-> NilObj, err |-> ErrMergeNotSupported]]
      [] OTHER ->
            [next |-> "returned",
             ret |-> [obj |-> NilObj, err |-> Err("unknown conflict decision")]]

\* A switch whose Merge case fails the way Skip does.
ConflictOutcomeMergeAsSkip(decision, remote) ==
    CASE decision = UseLocal -> [next |-> "rewrite", ret |-> Pending]
      [] decision = UseRemote ->
            [next |-> "returned", ret |-> [obj |-> remote, err |-> NoErr]]
      [] decision \in {Skip, Merge} ->
            [next |-> "returned", ret |-> [obj |-> NilObj, err |-> ErrPreconditionFailed]]
      [] OTHER ->
            [next |-> "returned",
             ret |-> [obj |-> NilObj, err |-> Err("unknown conflict decision")]]

\* handleConflict's switch on the decision: what the call does next and
\* what it returns.
ConflictOutcome(decision, remote) ==
    CASE decision = UseLocal -> [next |-> "rewrite", ret |-> Pending]
      [] decision = UseRemote ->
            [next |-> "returned", ret |-> [obj |-> remote, err |-> NoErr]]
      [] decision = Skip ->
            [next |-> "returned", ret |-> [obj |-> NilObj, err |-> ErrPreconditionFailed]]
      [] decision = Merge ->
            [next |-> "returned", ret |-> [obj |-> NilObj, err |-> ErrMergeNotSupported]]
      [] OTHER ->
            [next |-> "returned",
             ret |-> [obj |-> NilObj, err |-> Err("unknown conflict decision")]]

\* A local object that is given no time.
LocalObjectUnstamped(path, cal, now) == [CalendarObject(path) EXCEPT !.Data = cal]

\* handleConflict's localObj: the caller's document, stamped with time.Now().
LocalObject(path, cal, now) ==
    [CalendarObject(path) EXCEPT !.Data = cal, !.ModTime = now]

\* handleConflict once GetCalendarObject has returned remote for the
\* response g: the local object stamped with time.Now(), the resolver's
\* decision and the branch on it.
Resolving(now, g, remote) ==
    LET localObj == LocalObject(call.path, call.cal, now)
    IN  /\ reqs' = Append(reqs, Request("GET", call.path, NoOpts, NoData))
        /\ status' = g.status
        /\ IF remote.err # NoErr
           THEN /\ ret' = [obj |-> NilObj, err |-> WrapGetError(remote.err)]
                /\ pc' = "returned"
                /\ fetched' = NilObj
                /\ UNCHANGED resolved
           ELSE IF conflictResolver = "nil"
           THEN \* c.conflictResolver.Resolve on a nil interface value
                /\ ret' = [obj |-> NilObj, err |-> Err("panic")]
                /\ pc' = "crashed"
                /\ fetched' = remote.co
                /\ UNCHANGED resolved
           ELSE \E decision \in Resolve(conflictResolver, localObj, remote.co) :
                LET out == ConflictOutcome(decision, remote.co)
                IN  /\ fetched' = IF out.next = "rewrite" THEN NilObj ELSE remote.co
                    /\ resolved' = [made |-> TRUE, decision |-> decision,
                                    newer |->
                                      IF localObj.ModTime > remote.co.ModTime
                                      THEN "local"
                                      ELSE IF remote.co.ModTime > localObj.ModTime
                                      THEN "remote" ELSE "neither",
                                    seen |-> remote.co.Data,
                                    seenAt |-> remote.co.ModTime,
                                    over |-> NoData]
                    /\ pc' = out.next
                    /\ ret' = out.ret

\* handleConflict up to its decision, the re-fetch first.
handleConflict(now) ==
    /\ pc = "handleConflict"
    /\ \E g \in GetOutcomes(call.path, server[call.path]) :
            Resolving(now, g, GetCalendarObject(call.path, g))
    /\ checked' = "nil"
    /\ UNCHANGED <<server, conflictResolver, call, depth, wrote, prevDel, lastSet, hdrs>>
    /\ UNCHANGED otherThanWrite

\* A re-write that repeats the caller's preconditions.
RewriteOptionsOfCaller == call.opts

\* The options of the re-write in handleConflict's UseLocal branch.
RewriteOptions == NoOpts

\* The UseLocal branch: PutCalendarObject(ctx, path, local, nil), one round
\* deeper.
Rewrite ==
    /\ pc = "rewrite"
    /\ PutRound(call.path, call.cal, RewriteOptions, depth + 1, reqs, wrote)
    /\ UNCHANGED <<conflictResolver, call, fetched, prevDel, lastSet>>
    /\ UNCHANGED otherThanWrite

\* A delete that takes only 200 and 204 for success.
DeleteResultTwoStatuses(o) ==
    IF DoError(o) # NoErr THEN DoError(o)
    ELSE IF o.status = StatusNotFound THEN NoErr
    ELSE IF o.status \in {200, 204} THEN NoErr
    ELSE HTTPError(o.status)

\* A delete that reports a missing resource as an error.
DeleteResultMissingFails(o) ==
    IF DoError(o) # NoErr THEN DoError(o)
    ELSE IF o.status \div 100 = 2 THEN NoErr
    ELSE HTTPError(o.status)

\* DeleteCalendarObject on the outcome o of its request: the error returned.
DeleteResult(o) ==
    IF DoError(o) # NoErr THEN DoError(o)
    ELSE IF o.status = StatusNotFound THEN NoErr
    ELSE IF o.status \div 100 = 2 THEN NoErr
    ELSE HTTPError(o.status)

\* DeleteCalendarObject(ctx, path).
DeleteCalendarObject(path) ==
    /\ pc = "idle"
    /\ \E o \in DeleteOutcomes(server[path]) :
        /\ server' = IF o.commit THEN [server EXCEPT ![path] = NoRes] ELSE server
        /\ wrote' = IF o.commit THEN 1 ELSE 0
        /\ status' = o.status
        /\ ret' = [obj |-> NilObj, err |-> DeleteResult(o)]
        /\ prevDel' = IF DeleteResult(o) = NoErr THEN path ELSE <<>>
    /\ call' = [op |-> "Delete", path |-> path, cal |-> NoData, opts |-> NoOpts,
                again |-> prevDel = path]
    /\ reqs' = <<Request("DELETE", path, NoOpts, NoData)>>
    /\ depth' = 0
    /\ fetched' = NilObj
    /\ resolved' = NoDecision
    /\ hdrs' = NoHeaders
    /\ checked' = "nil"
    /\ pc' = "returned"
    /\ UNCHANGED <<conflictResolver, lastSet>>
    /\ UNCHANGED otherThanWrite

\* The caller has taken the result of its call and goes on.
ContinueStep ==
    /\ pc = "returned"
    /\ pc' = "idle"
    /\ call' = NoCall
    /\ depth' = 0
    /\ ret' = NoRet
    /\ reqs' = <<>>
    /\ wrote' = 0
    /\ fetched' = NilObj
    /\ resolved' = NoDecision
    /\ status' = 0
    /\ hdrs' = NoHeaders
    /\ checked' = "nil"
    /\ UNCHANGED <<server, conflictResolver, prevDel, lastSet>>

Continue ==
    /\ ContinueStep
    /\ UNCHANGED otherThanWrite

\* The caller notes the entity tag of the object a Put returned, under the
\* path it wrote to, and goes on.
KeepAndContinue ==
    /\ ContinueStep
    /\ call.op = "Put"
    /\ kept' = IF ret.err = NoErr
               THEN [kept EXCEPT ![call.path] = @ \cup {ret.obj.ETag}]
               ELSE kept
    /\ UNCHANGED otherThanWriteAndKept

(***************************************************************************)
(* Other clients of the same server.                                       *)
(***************************************************************************)
ThirdPartyWrite(path, res) ==
    /\ pc \notin {"returned", "crashed"}
    /\ server[path] # res
    /\ server' = [server EXCEPT ![path] = res]
    /\ UNCHANGED <<conflictResolver, pc, call, depth, ret, reqs, wrote, fetched,
                   resolved, status, prevDel, lastSet, hdrs, checked>>
    /\ UNCHANGED otherThanWrite

(***************************************************************************)
(* Synchronisation: the call, its caller and the collection's other        *)
(* writers.                                                                *)
(***************************************************************************)
\* SyncCalendar(ctx, calendar, syncToken, opts): one exchange, then the
\* reading of its multistatus.
SyncCalendar(calendar, syncToken, opts) ==
    /\ syncPc = "idle"
    /\ LET req == SyncRequest(calendar, syncToken, opts)
       IN  \E o \in SyncOutcomes(req.path, req.token) :
           \E nows \in NowsFor(Len(o.ms.Responses)) :
              /\ syncReqs' = <<req>>
              /\ syncResp' = [status |-> o.status, token |-> o.ms.SyncToken,
                              n |-> Len(o.ms.Responses),
                              responses |-> o.ms.Responses]
              /\ syncRet' = SyncCalendarResult(calendar, o, nows)
    /\ syncCall' = [calendar |-> calendar, token |-> syncToken, opts |-> opts]
    /\ syncPc' = "returned"
    /\ UNCHANGED <<coll, gen, stamp, oldest, storedToken, syncState>>
    /\ UNCHANGED otherThanSync

\* The caller takes the result: it persists the token of a successful sync,
\* and notes an expiry.
SyncContinue ==
    /\ syncPc = "returned"
    /\ syncPc' = "idle"
    /\ storedToken' = IF syncRet.err = NoErr THEN syncRet.result.SyncToken
                      ELSE storedToken
    /\ syncState' = IF syncRet.err = NoErr THEN "HasToken"
                    ELSE IF syncRet.err = ErrSyncTokenExpired THEN "Expired"
                    ELSE syncState
    /\ syncCall' = NoSyncCall
    /\ syncRet' = NoSyncRet
    /\ syncReqs' = <<>>
    /\ syncResp' = NoSyncResp
    /\ UNCHANGED <<coll, gen, stamp, oldest>>
    /\ UNCHANGED otherThanSync

\* Another client changes a member of the collection.
CollectionChange(path, res) ==
    /\ syncPc = "idle"
    /\ gen < MaxGen
    /\ coll[path] # res
    /\ coll' = [coll EXCEPT ![path] = res]
    /\ gen' = gen + 1
    /\ stamp' = [stamp EXCEPT ![path] = gen + 1]
    /\ UNCHANGED <<oldest, storedToken, syncState, syncPc, syncCall, syncRet,
                   syncReqs, syncResp>>
    /\ UNCHANGED otherThanSync

\* The server forgets its oldest token.
ForgetToken ==
    /\ syncPc = "idle"
    /\ oldest < gen
    /\ oldest' = oldest + 1
    /\ UNCHANGED <<coll, gen, stamp, storedToken, syncState, syncPc, syncCall,
                   syncRet, syncReqs, syncResp>>
    /\ UNCHANGED otherThanSync

(***************************************************************************)
(* A built-in resolver applied to its arguments.                           *)
(***************************************************************************)
ApplyResolver ==
    /\ decided = NotApplied
    /\ \E d \in Resolve(builtin, localArg, remoteArg) :
            decided' = [applied |-> TRUE, decision |-> d]
    /\ UNCHANGED <<builtin, localArg, remoteArg>>
    /\ UNCHANGED otherThanResolve

(***************************************************************************)
(* SyncCalendar on a multistatus that SyncCollection returned.             *)
(***************************************************************************)
ClassifyResponses ==
    /\ ~clsResult.applied
    /\ \E nows \in NowsFor(Len(clsResponses)) :
        LET r == SyncCalendarResult(CalendarPath,
                    [err |-> NoErr, status |-> StatusMultiStatus,
                     ms |-> [SyncToken |-> TokenOf(0), Responses |-> clsResponses]],
                    nows)
        IN  clsResult' = [applied |-> TRUE, result |-> r.result, err |-> r.err,
                          nows |-> nows]
    /\ UNCHANGED clsResponses
    /\ UNCHANGED otherThanClassify

(***************************************************************************)
(* The listing calls.                                                      *)
(***************************************************************************)
ListRet(op, o) ==
    LET r == ListResult(o)
    IN  [op |-> op, failed |-> o.err # NoListErr, isNil |-> r.isNil,
         objs |-> r.objs, err |-> r.err]

QueryCalendar(calendar, opts) ==
    /\ listCalls < MaxCalls
    /\ listCalls' = listCalls + 1
    /\ LET m == ApplyTimeRange(query, opts)
       IN  /\ query' = CallersView(query, m.query)
           /\ IF m.panicked
              THEN /\ sent' = [op |-> "QueryCalendar", opts |-> opts,
                               panicked |-> TRUE, req |-> NoRequest]
                   /\ decRet' = decRet
              ELSE /\ sent' = [op |-> "QueryCalendar", opts |-> opts,
                               panicked |-> FALSE,
                               req |-> QueryRequest(calendar, m.query)]
                   /\ \E o \in ListOutcomes(decResponses) :
                        decRet' = ListRet("QueryCalendar", o)
    /\ UNCHANGED decResponses
    /\ UNCHANGED otherThanDecode

MultiGetCalendar(path, multiGet) ==
    /\ listCalls < MaxCalls
    /\ listCalls' = listCalls + 1
    /\ sent' = [op |-> "MultiGetCalendar", opts |-> NilQueryOptions,
                panicked |-> FALSE, req |-> MultiGetRequest(path, multiGet)]
    /\ \E o \in ListOutcomes(decResponses) : decRet' = ListRet("MultiGetCalendar", o)
    /\ UNCHANGED <<decResponses, query>>
    /\ UNCHANGED otherThanDecode

(***************************************************************************)
(* Calls of the methods of a SyncResult and of its deleted items.          *)
(***************************************************************************)
CallAddCreated(obj) ==
    /\ TotalChanges(madeResult) < MaxItems
    /\ madeResult' = AddCreated(madeResult, obj)
    /\ addCalls' = [addCalls EXCEPT !.calls = Append(@, [to |-> "Created", item |-> obj])]
    /\ UNCHANGED extracted
    /\ UNCHANGED otherThanResult

CallAddUpdated(obj) ==
    /\ TotalChanges(madeResult) < MaxItems
    /\ madeResult' = AddUpdated(madeResult, obj)
    /\ addCalls' = [addCalls EXCEPT !.calls = Append(@, [to |-> "Updated", item |-> obj])]
    /\ UNCHANGED extracted
    /\ UNCHANGED otherThanResult

CallAddDeleted(path, uid) ==
    /\ TotalChanges(madeResult) < MaxItems
    /\ madeResult' = AddDeleted(madeResult, path, uid)
    /\ addCalls' = [addCalls EXCEPT !.calls =
                        Append(@, [to |-> "Deleted", item |-> [Path |-> path, UID |-> uid]])]
    /\ UNCHANGED extracted
    /\ UNCHANGED otherThanResult

CallExtractUID(k) ==
    /\ k \in 1..Len(madeResult.Deleted)
    /\ extracted' = [applied |-> TRUE, item |-> madeResult.Deleted[k],
                     uid |-> ExtractUID(madeResult.Deleted[k])]
    /\ UNCHANGED <<madeResult, addCalls>>
    /\ UNCHANGED otherThanResult

(***************************************************************************)
(* The objects of two responses that differ in their ETag header alone.    *)
(***************************************************************************)
\* Two PutCalendarObject calls of path answered 204 with the two headers:
\* the ETag of each object, and the Path of the first.
PutBoth(path) ==
    /\ tagged.op = "none"
    /\ tagged' = With(PutResult(path, [NoHeaders EXCEPT !.ETag = tagA]), LAMBDA ra :
                  With(PutResult(path, [NoHeaders EXCEPT !.ETag = tagB]), LAMBDA rb :
                    [op |-> "Put", a |-> ra.obj.ETag, b |-> rb.obj.ETag,
                     arg |-> path, path |-> ra.obj.Path]))
    /\ UNCHANGED <<tagA, tagB>>
    /\ UNCHANGED otherThanTag

\* Two GetCalendarObject calls of path answered 200 with the two headers.
GetBoth(path) ==
    /\ tagged.op = "none"
    /\ tagged' =
            With(GetCalendarObject(path,
                    GetResponse(ResolveHref(path), 200, MIMEType, "1",
                                [NoHeaders EXCEPT !.ETag = tagA])), LAMBDA ra :
            With(GetCalendarObject(path,
                    GetResponse(ResolveHref(path), 200, MIMEType, "1",
                                [NoHeaders EXCEPT !.ETag = tagB])), LAMBDA rb :
                [op |-> "Get", a |-> ra.co.ETag, b |-> rb.co.ETag,
                 arg |-> path, path |-> ra.co.Path]))
    /\ UNCHANGED <<tagA, tagB>>
    /\ UNCHANGED otherThanTag

(***************************************************************************)
(* QueryCalendar, statement by statement, for each of the two calls.       *)
(***************************************************************************)
\* modifiedQuery := *query, and the loop up to the first VEVENT child.
QueryCopy(c) ==
    /\ racing[c].pc = "called"
    /\ LET o == racing[c].opts
           i == FirstVEVENT(sharedComps)
       IN  racing' = [racing EXCEPT
                ![c].at = i,
                ![c].pc = IF o.isNil \/ (o.TimeRangeStart.isNil /\ o.TimeRangeEnd.isNil)
                             \/ i = 0
                          THEN "encode" ELSE "start"]
    /\ UNCHANGED <<givenQuery, sharedComps>>
    /\ UNCHANGED otherThanRace

\* modifiedQuery.CompFilter.Comps[i].Start = *opts.TimeRangeStart
QueryWriteStart(c) ==
    /\ racing[c].pc = "start"
    /\ sharedComps' = [sharedComps EXCEPT ![racing[c].at].Start =
                                                racing[c].opts.TimeRangeStart.t]
    /\ racing' = [racing EXCEPT ![c].pc = "end"]
    /\ UNCHANGED givenQuery
    /\ UNCHANGED otherThanRace

\* modifiedQuery.CompFilter.Comps[i].End = *opts.TimeRangeEnd
QueryWriteEnd(c) ==
    /\ racing[c].pc = "end"
    /\ sharedComps' = [sharedComps EXCEPT ![racing[c].at].End =
                                                racing[c].opts.TimeRangeEnd.t]
    /\ racing' = [racing EXCEPT ![c].pc = "encode"]
    /\ UNCHANGED givenQuery
    /\ UNCHANGED otherThanRace

\* encodeCompFilter reads the Start of the children,
QueryReadStart(c) ==
    /\ racing[c].pc = "encode"
    /\ racing' = [racing EXCEPT ![c].seen = sharedComps, ![c].pc = "encoding"]
    /\ UNCHANGED <<givenQuery, sharedComps>>
    /\ UNCHANGED otherThanRace

\* then their End, and the REPORT is sent.
QuerySend(c) ==
    /\ racing[c].pc = "encoding"
    /\ LET comps == [k \in 1..Len(sharedComps) |->
                        [racing[c].seen[k] EXCEPT !.End = sharedComps[k].End]]
       IN  racing' = [racing EXCEPT
                ![c].pc = "sent",
                ![c].req = QueryRequest(CalendarPath,
                              [givenQuery EXCEPT !.CompFilter.Comps = comps])]
    /\ UNCHANGED <<givenQuery, sharedComps>>
    /\ UNCHANGED otherThanRace

(***************************************************************************)
(* Specifications.                                                         *)
(***************************************************************************)
RaceQuiet ==
    /\ givenQuery = ReadmeQuery
    /\ sharedComps = ReadmeQuery.CompFilter.Comps
    /\ racing = [c \in Callers |-> [opts |-> NilQueryOptions, pc |-> "called", at |-> 0,
                                    seen |-> <<>>, req |-> NoRequest]]
TagQuiet == TagInit /\ tagA = <<>> /\ tagB = <<>>
ResultQuiet == ResultInit /\ madeResult = NewSyncResult(<<>>)
DecodeQuiet == decResponses = <<>> /\ decRet = NotListed
QueryQuiet == QueryInit /\ query = ReadmeQuery
ClassifyQuiet == ClassifyInit /\ clsResponses = <<CHOOSE f \in CompanionResponses : f.Path = PathB>>
WriteQuiet == WriteInit /\ server = [p \in Paths |-> NoRes]
SyncQuiet == SyncInit /\ coll = [p \in Paths |-> NoRes]
ResolveQuiet ==
    /\ ResolveInit
    /\ builtin = "LastModifiedWins"
    /\ localArg = NilObj
    /\ remoteArg = NilObj

\* The write path and delete.
Init == WriteInit /\ SyncQuiet /\ ResolveQuiet /\ ClassifyQuiet /\ DecodeQuiet /\ QueryQuiet /\ ResultQuiet /\ KeepInit /\ TagQuiet /\ RaceQuiet
Next ==
    \/ \E r \in Resolvers \cup {"nil"} : SetConflictResolver(r)
    \/ \E path \in Paths, cal \in Docs \cup {InvalidCal}, opts \in PutOptions :
            PutCalendarObject(path, cal, opts)
    \/ \E now \in 1..MaxTime : handleConflict(now)
    \/ Rewrite
    \/ \E path \in Paths : DeleteCalendarObject(path)
    \/ Continue
    \/ \E path \in Paths, res \in Docs \cup {NoRes} : ThirdPartyWrite(path, res)
Spec == Init /\ [][Next]_vars

\* Synchronisation.
InitSync == WriteQuiet /\ SyncInit /\ ResolveQuiet /\ ClassifyQuiet /\ DecodeQuiet /\ QueryQuiet /\ ResultQuiet /\ KeepInit /\ TagQuiet /\ RaceQuiet
NextSync ==
    \/ \E syncToken \in {<<>>, storedToken}, opts \in SyncOptions :
            SyncCalendar(CalendarPath, syncToken, opts)
    \/ SyncContinue
    \/ \E path \in Paths, res \in Docs \cup {NoRes} : CollectionChange(path, res)
    \/ ForgetToken
SpecSync == InitSync /\ [][NextSync]_vars

\* The built-in resolvers as functions.
InitResolve == WriteQuiet /\ SyncQuiet /\ ResolveInit /\ ClassifyQuiet /\ DecodeQuiet /\ QueryQuiet /\ ResultQuiet /\ KeepInit /\ TagQuiet /\ RaceQuiet
NextResolve == ApplyResolver
SpecResolve == InitResolve /\ [][NextResolve]_vars

\* SyncCalendar's reading of a multistatus.
InitClassify == WriteQuiet /\ SyncQuiet /\ ResolveQuiet /\ ClassifyInit /\ DecodeQuiet /\ QueryQuiet /\ ResultQuiet /\ KeepInit /\ TagQuiet /\ RaceQuiet
NextClassify == ClassifyResponses
SpecClassify == InitClassify /\ [][NextClassify]_vars

\* The listing calls on the answers of their REPORT.
InitDecode ==
    WriteQuiet /\ SyncQuiet /\ ResolveQuiet /\ ClassifyQuiet /\ DecodeInit /\ QueryQuiet
    /\ ResultQuiet /\ KeepInit /\ TagQuiet /\ RaceQuiet
NextDecode ==
    \/ QueryCalendar(CalendarPath, NilQueryOptions)
    \/ \E paths \in {<<>>, <<PathA>>} :
            MultiGetCalendar(CalendarPath, [CompRequest |-> ReadmeCompRequest, Paths |-> paths])
SpecDecode == InitDecode /\ [][NextDecode]_vars

\* QueryCalendar on the queries and options of a caller.
InitQuery ==
    WriteQuiet /\ SyncQuiet /\ ResolveQuiet /\ ClassifyQuiet /\ DecodeQuiet /\ QueryInit
    /\ ResultQuiet /\ KeepInit /\ TagQuiet /\ RaceQuiet
NextQuery == \E opts \in QueryOptionsSet : QueryCalendar(CalendarPath, opts)
SpecQuery == InitQuery /\ [][NextQuery]_vars

\* The result types on their own.
InitResult ==
    WriteQuiet /\ SyncQuiet /\ ResolveQuiet /\ ClassifyQuiet /\ DecodeQuiet /\ QueryQuiet
    /\ ResultInit /\ KeepInit /\ TagQuiet /\ RaceQuiet
NextResult ==
    \/ \E p \in {PathA, PathB} : CallAddCreated(CalendarObject(p))
    \/ \E p \in {PathA, PathB} : CallAddUpdated(CalendarObject(p))
    \/ \E path \in ItemPaths, uid \in ItemUIDs : CallAddDeleted(path, uid)
    \/ \E k \in 1..MaxItems : CallExtractUID(k)
SpecResult == InitResult /\ [][NextResult]_vars

\* A caller that writes again and again and keeps the entity tags it gets.
InitPut == Init
NextPut ==
    \/ \E path \in Paths, cal \in Docs : PutCalendarObject(path, cal, NoOpts)
    \/ KeepAndContinue
SpecPut == InitPut /\ [][NextPut]_vars

\* The entity tags of the objects built from two responses.
InitTag ==
    WriteQuiet /\ SyncQuiet /\ ResolveQuiet /\ ClassifyQuiet /\ DecodeQuiet /\ QueryQuiet
    /\ ResultQuiet /\ KeepInit /\ TagInit /\ RaceQuiet
NextTag ==
    \/ \E path \in TagPaths : PutBoth(path)
    \/ \E path \in TagPaths : GetBoth(path)
SpecTag == InitTag /\ [][NextTag]_vars

\* Two QueryCalendar calls at once on one query.
InitRace ==
    WriteQuiet /\ SyncQuiet /\ ResolveQuiet /\ ClassifyQuiet /\ DecodeQuiet /\ QueryQuiet
    /\ ResultQuiet /\ KeepInit /\ TagQuiet /\ RaceInit
NextRace ==
    \E c \in Callers :
        \/ QueryCopy(c)
        \/ QueryWriteStart(c)
        \/ QueryWriteEnd(c)
        \/ QueryReadStart(c)
        \/ QuerySend(c)
SpecRace == InitRace /\ [][NextRace]_vars

(***************************************************************************)
(* Properties of the write path and of delete, under Spec.                 *)
(***************************************************************************)
PutReturned == pc = "returned" /\ call.op = "Put"
DeleteReturned == pc = "returned" /\ call.op = "Delete"
LastRequest == reqs[Len(reqs)]
ResolvedAs(d) == PutReturned /\ resolved.made /\ resolved.decision = d
\* The step in which a PUT of the call is answered with a 412.
PutRejected ==
    /\ pc \in {"idle", "rewrite"}
    /\ pc' # pc
    /\ call'.op = "Put"
    /\ status' = StatusPreconditionFailed

\* C1: when a PUT of PutCalendarObject is answered 412 and no conflict
\* resolver is configured, the call returns ErrPreconditionFailed and no
\* object in that very step, the rejected PUT being the one request the
\* step sent, and the call sends nothing after it has returned.
C1_NoResolverFails ==
    [][/\ (PutRejected /\ conflictResolver = "nil") =>
            /\ pc' = "returned"
            /\ ret' = [obj |-> NilObj, err |-> ErrPreconditionFailed]
            /\ Len(reqs') = (IF pc = "idle" THEN 0 ELSE Len(reqs)) + 1
            /\ reqs'[Len(reqs')].method = "PUT"
            /\ wrote' = (IF pc = "idle" THEN 0 ELSE wrote)
       /\ (PutReturned /\ status = StatusPreconditionFailed) => reqs' = <<>>
      ]_vars

\* C1's case: a Put with a stale If-Match, no resolver, one request, failed.
C1_Witness ==
    /\ PutReturned
    /\ status = StatusPreconditionFailed
    /\ conflictResolver = "nil"
    /\ call.opts.IfMatch # <<>>
    /\ ret = [obj |-> NilObj, err |-> ErrPreconditionFailed]
    /\ Len(reqs) = 1

\* C2: when the resolver decided UseLocal, the request after the re-fetch
\* GET is a PUT of the call's document to the call's path with neither
\* If-Match nor If-None-Match; when the server accepts it, the path holds
\* the call's document whatever a third party wrote there since the
\* re-fetch, no conflict error is returned, and an object returned is the
\* one built from the headers of a response to that PUT, not the re-fetched
\* one.
C2_UseLocalRewrites ==
    /\ pc = "rewrite" => LastRequest.method = "GET"
    /\ ResolvedAs(UseLocal) =>
        /\ Len(reqs) >= 3
        /\ LastRequest = Request("PUT", call.path, NoOpts, call.cal)
        /\ reqs[Len(reqs) - 1] = Request("GET", call.path, NoOpts, NoData)
        /\ reqs[Len(reqs) - 2].method = "PUT"
        /\ fetched = NilObj
        /\ status \in {201, 204} =>
            /\ server[call.path] = call.cal
            /\ ret.err \notin {ErrPreconditionFailed, ErrMergeNotSupported}
            /\ ret.err = NoErr =>
                ret.obj \in {PutResult(call.path, h).obj :
                                h \in ResourceHeaders(call.cal)}

\* C2's case: the re-write replaced a document a third party had put there
\* after the re-fetch, and the call returned an object without error.
C2_Witness ==
    /\ ResolvedAs(UseLocal)
    /\ status = 204
    /\ resolved.over \in Docs
    /\ resolved.over # resolved.seen
    /\ resolved.over # call.cal
    /\ server[call.path] = call.cal
    /\ ret.err = NoErr
    /\ ~ret.obj.isNil

\* C3: when the resolver decided UseRemote, the call returns the object the
\* re-fetch gave, with a nil error; the re-fetch GET is its last request,
\* the request before it is the rejected PUT, and the server accepted no
\* write of the call.
C3_UseRemoteReturnsFetched ==
    ResolvedAs(UseRemote) =>
        /\ ~fetched.isNil
        /\ fetched.Data = resolved.seen
        /\ ret = [obj |-> fetched, err |-> NoErr]
        /\ LastRequest.method = "GET"
        /\ reqs[Len(reqs) - 1].method = "PUT"
        /\ wrote = 0

\* C3's case: a rejected Put whose resolver chose the server's version.
C3_Witness ==
    /\ ResolvedAs(UseRemote)
    /\ Len(reqs) = 2
    /\ ret.err = NoErr
    /\ ret.obj.Data \in Docs
    /\ ret.obj.Data # call.cal
    /\ server[call.path] = ret.obj.Data

\* C4: when the resolver decided Skip the call fails with
\* ErrPreconditionFailed, when it decided Merge with ErrMergeNotSupported;
\* either way it returns no object, its last request is the re-fetch GET and
\* the server accepted no write of the call.
C4_SkipAndMergeFail ==
    /\ ResolvedAs(Skip) => ret = [obj |-> NilObj, err |-> ErrPreconditionFailed]
    /\ ResolvedAs(Merge) => ret = [obj |-> NilObj, err |-> ErrMergeNotSupported]
    /\ (ResolvedAs(Skip) \/ ResolvedAs(Merge)) =>
        /\ LastRequest.method = "GET"
        /\ wrote = 0

\* C4's case: a rejected Put whose resolver chose Merge.
C4_Witness ==
    /\ ResolvedAs(Merge)
    /\ ret.err = ErrMergeNotSupported
    /\ Len(reqs) = 2

\* C7: a DeleteCalendarObject that got a response returns nil when the
\* status is 404 or 2xx, and otherwise an HTTP error carrying the status.
C7_DeleteStatuses ==
    (DeleteReturned /\ status # 0) =>
        IF status = 404 \/ (status >= 200 /\ status <= 299)
        THEN ret.err = NoErr
        ELSE ret.err.kind = "HTTPError" /\ ret.err.code = status

\* C7's case: a 2xx other than 200 and 204 taken for success.
C7_Witness ==
    /\ DeleteReturned
    /\ status = 202
    /\ ret.err = NoErr

\* C8: on a server that answers a delete with 200 or 204 once it has removed
\* the resource and 404 when there is none, a DeleteCalendarObject returns
\* no error and leaves the path without an object, on a path that held one,
\* on one that held none, and when it follows a delete of the same path.
C8_DeleteIdempotent ==
    (DeleteReturned /\ status \in {200, 204, 404}) =>
        /\ ret.err = NoErr
        /\ server[call.path] = NoRes

\* C8's case: the second of two deletes in a row finds nothing to delete.
C8_Witness ==
    /\ DeleteReturned
    /\ call.again
    /\ status = 404
    /\ ret.err = NoErr
    /\ server[call.path] = NoRes

(***************************************************************************)
(* Properties of synchronisation, under SpecSync.                          *)
(***************************************************************************)
SyncReturned == syncPc = "returned"

\* C5: when the server answers 410, SyncCalendar returns ErrSyncTokenExpired
\* and a nil result, having sent one request, with the token it was given.
C5_ExpiredToken ==
    (SyncReturned /\ syncResp.status = StatusGone) =>
        /\ syncRet = [result |-> NilResult, err |-> ErrSyncTokenExpired]
        /\ Len(syncReqs) = 1
        /\ syncReqs[1].token = syncCall.token
        /\ syncCall.token # <<>>

\* C5's case: the caller's token has expired on the server.
C5_Witness ==
    /\ SyncReturned
    /\ syncState = "HasToken"
    /\ syncResp.status = StatusGone
    /\ syncCall.token = storedToken
    /\ syncRet.err = ErrSyncTokenExpired

\* C6: every SyncCalendar sends one request carrying the token it was given;
\* a successful one returns the token of the response; the client holds
\* nothing of it afterwards; and a caller whose token has expired gets a
\* successful sync only from a call with the empty token.
C6_TokenWithCaller ==
    SyncReturned =>
        /\ syncReqs = <<[method |-> "REPORT", path |-> syncCall.calendar,
                         token |-> syncCall.token,
                         depth |-> SyncLevel(syncCall.opts)]>>
        /\ syncRet.err = NoErr =>
            /\ syncResp.status = StatusMultiStatus
            /\ syncRet.result.SyncToken = syncResp.token
        /\ conflictResolver = "nil"
        /\ (syncState = "Expired" /\ syncRet.err = NoErr) => syncCall.token = <<>>

\* C6's case: after an expiry, a sync with the empty token succeeds and
\* brings a new token.
C6_Witness ==
    /\ SyncReturned
    /\ syncState = "Expired"
    /\ syncCall.token = <<>>
    /\ syncRet.err = NoErr
    /\ syncRet.result.SyncToken = syncResp.token
    /\ syncRet.result.SyncToken # storedToken
    /\ syncRet.result.SyncToken # <<>>

(***************************************************************************)
(* Properties of the built-in resolvers, under SpecResolve.                *)
(***************************************************************************)
\* C9: each built-in resolver returns Skip on (nil, nil).
C9_BothNilSkips ==
    (decided.applied /\ localArg = NilObj /\ remoteArg = NilObj) =>
        decided.decision = Skip

\* C10: each built-in resolver returns UseRemote on (nil, remote) with a
\* remote that is not nil, and UseLocal on (local, nil) with a local that is
\* not nil.
C10_OneNil ==
    /\ (decided.applied /\ localArg = NilObj /\ remoteArg # NilObj) =>
            decided.decision = UseRemote
    /\ (decided.applied /\ localArg # NilObj /\ remoteArg = NilObj) =>
            decided.decision = UseLocal

\* C10's case: the resolver that always uses the local version is given no
\* local version.
C10_Witness ==
    /\ decided.applied
    /\ builtin = "AlwaysUseLocal"
    /\ localArg = NilObj
    /\ remoteArg # NilObj
    /\ decided.decision = UseRemote

\* C11: LastModifiedWinsResolver.Resolve on two objects that are not nil
\* returns UseLocal when local.ModTime is strictly later, UseRemote when
\* remote.ModTime is strictly later, and UseLocal when the times are equal.
C11_LastModifiedWins ==
    (decided.applied /\ builtin = "LastModifiedWins"
        /\ localArg # NilObj /\ remoteArg # NilObj) =>
        decided.decision = (IF localArg.ModTime > remoteArg.ModTime THEN UseLocal
                            ELSE IF remoteArg.ModTime > localArg.ModTime THEN UseRemote
                            ELSE UseLocal)

\* C11's case: two objects modified at the same instant.
C11_Witness ==
    /\ decided.applied
    /\ builtin = "LastModifiedWins"
    /\ localArg # NilObj
    /\ remoteArg # NilObj
    /\ localArg.ModTime = remoteArg.ModTime
    /\ localArg.ModTime > 0
    /\ localArg.Data # remoteArg.Data
    /\ decided.decision = UseLocal

(***************************************************************************)
(* More properties of the write path, under Spec.                          *)
(***************************************************************************)
\* The step in which handleConflict asks a LastModifiedWinsResolver.
LastModifiedWinsAsked ==
    /\ pc = "handleConflict"
    /\ conflictResolver = "LastModifiedWins"
    /\ resolved'.made

\* C12: in handleConflict with a LastModifiedWinsResolver, when the
\* re-fetched object is modified strictly later than the local one the call
\* returns the re-fetched object as it is, with no error, and the server
\* has accepted no write; when the local one is strictly later the call
\* goes on to the re-write, which is a PUT without preconditions and, once
\* accepted, leaves the call's document on the server and returns a new
\* object, not the re-fetched one.
C12_LastModifiedWinsFlow ==
    [][/\ LastModifiedWinsAsked =>
            /\ resolved'.newer = "remote" =>
                /\ pc' = "returned"
                /\ ~fetched'.isNil
                /\ fetched'.Data = server[call.path]
                /\ ret' = [obj |-> fetched', err |-> NoErr]
                /\ reqs' = Append(reqs, Request("GET", call.path, NoOpts, NoData))
                /\ server' = server
                /\ wrote' = 0
            /\ resolved'.newer = "local" => pc' = "rewrite"
       /\ (pc = "rewrite" /\ pc' # pc) =>
            /\ reqs' = Append(reqs, Request("PUT", call.path, NoOpts, call.cal))
            /\ status' \in {201, 204} =>
                /\ server'[call.path] = call.cal
                /\ fetched' = NilObj
                /\ ret'.err = NoErr => (~ret'.obj.isNil /\ ret'.obj.Data = NoData)
      ]_vars

\* C12's case: a Put with a stale If-Match, and a server whose version is
\* dated later than the client's clock.
C12_Witness ==
    /\ PutReturned
    /\ conflictResolver = "LastModifiedWins"
    /\ call.opts.IfMatch # <<>>
    /\ resolved.made
    /\ resolved.newer = "remote"
    /\ resolved.decision = UseRemote
    /\ ret = [obj |-> fetched, err |-> NoErr]
    /\ fetched.ModTime > 0
    /\ Len(reqs) = 2

\* The step in which a call of PutCalendarObject with If-None-Match: * and
\* no resolver set gets the server's answer to its PUT.
CreateOnlyAnswered ==
    /\ pc = "idle"
    /\ pc' # pc
    /\ call'.op = "Put"
    /\ call'.opts = [NoOpts EXCEPT !.IfNoneMatch = Star]
    /\ conflictResolver = "nil"
    /\ status' \notin {0, 504}

\* C13: with no resolver set, a PutCalendarObject with If-None-Match: *
\* that the server answers fails with ErrPreconditionFailed and leaves the
\* server as it was when the path holds an object; when it holds none the
\* object is created and the call does not fail on the precondition: it
\* returns an object unless a header of the response is malformed.
C13_CreateOnly ==
    [][CreateOnlyAnswered =>
          /\ pc' = "returned"
          /\ Len(reqs') = 1
          /\ reqs'[1].IfNoneMatch = Star
          /\ IF server[call'.path] # NoRes
             THEN /\ status' = StatusPreconditionFailed
                  /\ ret' = [obj |-> NilObj, err |-> ErrPreconditionFailed]
                  /\ server' = server
             ELSE /\ status' = 201
                  /\ server' = [server EXCEPT ![call'.path] = call'.cal]
                  /\ ret'.err \in {NoErr, Err("url.Parse"), Err("strconv.ParseInt"),
                                   Err("http.ParseTime")}
                  /\ ret'.err = NoErr => ~ret'.obj.isNil
      ]_vars

\* C13's case: the path holds another document, which stays.
C13_Witness ==
    /\ PutReturned
    /\ call.opts.IfNoneMatch = Star
    /\ conflictResolver = "nil"
    /\ status = StatusPreconditionFailed
    /\ ret = [obj |-> NilObj, err |-> ErrPreconditionFailed]
    /\ server[call.path] \in Docs
    /\ server[call.path] # call.cal

(***************************************************************************)
(* More properties of synchronisation, under SpecSync.                     *)
(***************************************************************************)
\* The documents the last response carried all parse.
DocumentsParse ==
    \A i \in 1..Len(syncResp.responses) :
        \A k \in 1..Len(syncResp.responses[i].PropStats) :
            syncResp.responses[i].PropStats[k].Data # CorruptBody

\* C14: a SyncCalendar with the empty token that succeeds on a collection
\* of N objects, each reported with a document that parses or with none,
\* returns N entries over Created and Updated together, an empty Deleted
\* and a token that is not empty.
C14_InitialSync ==
    (SyncReturned /\ syncCall.token = <<>> /\ syncRet.err = NoErr /\ DocumentsParse) =>
        /\ Len(syncRet.result.Created) + Len(syncRet.result.Updated)
                = Cardinality({p \in Paths : coll[p] # NoRes})
        /\ syncRet.result.Deleted = <<>>
        /\ syncRet.result.SyncToken # <<>>

\* C14's case: two objects, reported by entity tag only after the
\* collection's own row.
C14_Witness ==
    /\ SyncReturned
    /\ syncCall.token = <<>>
    /\ syncRet.err = NoErr
    /\ \A p \in Paths : coll[p] # NoRes
    /\ Len(syncResp.responses) = 3
    /\ syncResp.responses[1].Path = syncCall.calendar
    /\ ~syncResp.responses[2].PropStats[1].hasData
    /\ Len(syncRet.result.Updated) = 2
    /\ syncRet.result.Updated[1].Data = NoData

(***************************************************************************)
(* Claims about SyncCalendar's reading of the entries of a multistatus.    *)
(***************************************************************************)
\* The entries SyncCalendar was given that name a member of the collection.
MemberEntries ==
    SelectSeq(clsResponses, LAMBDA r : ~r.pathErr /\ r.Path # CalendarPath)

\* The status text of an entry: its own, or else its first propstat's.
EntryText(r) ==
    IF r.Status.set THEN r.Status.Text
    ELSE IF r.PropStats # <<>> THEN r.PropStats[1].Status.Text
    ELSE <<>>
EntryGone(r) == Contains(EntryText(r), <<"4", "0", "4">>)
EntryOK(r) == ~EntryGone(r) /\ Contains(EntryText(r), <<"2", "0", "0">>)

\* What an entry carries: calendar data, a document that parses, an entity
\* tag, a UID property.
EntryCarriesData(r) == \E k \in 1..Len(r.PropStats) : r.PropStats[k].Data # NoBytes
EntryHasDocument(r) == \E k \in 1..Len(r.PropStats) : r.PropStats[k].Data \in Docs
EntryDocument(r) ==
    r.PropStats[CHOOSE k \in 1..Len(r.PropStats) : r.PropStats[k].Data \in Docs].Data
EntryETag(r) ==
    IF \E k \in 1..Len(r.PropStats) : r.PropStats[k].hasETag
    THEN r.PropStats[CHOOSE k \in 1..Len(r.PropStats) : r.PropStats[k].hasETag].ETag
    ELSE <<>>
EntryUID(r) ==
    IF \E k \in 1..Len(r.PropStats) : r.PropStats[k].UID # <<>>
    THEN r.PropStats[CHOOSE k \in 1..Len(r.PropStats) : r.PropStats[k].UID # <<>>].UID
    ELSE <<>>

\* The last segment of a member's path, without a trailing ".ics".
SegmentUID(path) ==
    CASE path = PathA -> <<"a">>
      [] path = PathB -> <<"b">>

GoneEntries == SelectSeq(MemberEntries, EntryGone)
Classified == clsResult.applied /\ ~clsResult.result.isNil

\* C15 as stated: every entry whose status text contains "404" is in Deleted
\* with its path, and its UID is the UID property the entry supplied, or the
\* last path segment without ".ics" when it supplied none.
C15_DeletedUIDSupplied ==
    Classified =>
        clsResult.result.Deleted =
            [k \in 1..Len(GoneEntries) |->
                [Path |-> GoneEntries[k].Path,
                 UID |-> IF EntryUID(GoneEntries[k]) # <<>>
                         THEN EntryUID(GoneEntries[k])
                         ELSE SegmentUID(GoneEntries[k].Path)]]

\* C15, amended: every entry whose status text contains "404" is in Deleted
\* with its path, in the order of the entries and nothing else is; its UID is
\* always the last path segment without a trailing ".ics", whatever the entry
\* carries.
C15_DeletedEntries ==
    Classified =>
        clsResult.result.Deleted =
            [k \in 1..Len(GoneEntries) |->
                [Path |-> GoneEntries[k].Path,
                 UID |-> SegmentUID(GoneEntries[k].Path)]]

\* A removed member whose entry came with a UID property is reported under
\* the UID of its path.
C15_Witness ==
    /\ Classified
    /\ \E k \in 1..Len(GoneEntries) :
        /\ GoneEntries[k].Path = PathA
        /\ EntryUID(GoneEntries[k]) = SuppliedUID
        /\ clsResult.result.Deleted[k] = [Path |-> PathA, UID |-> <<"a">>]

\* The objects of a list without the instant they were read at.
Timeless(objs) == [k \in 1..Len(objs) |-> [objs[k] EXCEPT !.ModTime = 0]]
DocumentObject(r) ==
    [isNil |-> FALSE, Path |-> r.Path, ETag |-> EntryETag(r), ModTime |-> 0,
     ContentLength |-> Zero, Data |-> EntryDocument(r)]
DocumentEntries(created) ==
    SelectSeq(MemberEntries,
              LAMBDA r : /\ EntryOK(r) /\ EntryHasDocument(r)
                         /\ Contains(EntryText(r), <<"2", "0", "1">>) = created)

\* C16: the entries that are not deleted, whose status text contains "200"
\* and that carry a calendar document are in Created when the text also
\* contains "201" and in Updated otherwise, with Path, ETag and the decoded
\* document; Created holds nothing else, Updated no other object with a
\* document, so that no entry is in both lists.
C16_DocumentEntries ==
    Classified =>
        /\ Timeless(clsResult.result.Created) =
                [k \in 1..Len(DocumentEntries(TRUE)) |->
                    DocumentObject(DocumentEntries(TRUE)[k])]
        /\ Timeless(SelectSeq(clsResult.result.Updated, LAMBDA o : o.Data # NoData)) =
                [k \in 1..Len(DocumentEntries(FALSE)) |->
                    DocumentObject(DocumentEntries(FALSE)[k])]

\* A multistatus with a created entry and an updated one, each in its list.
C16_Witness ==
    /\ Classified
    /\ Len(DocumentEntries(TRUE)) = 1
    /\ Len(DocumentEntries(FALSE)) = 1
    /\ Len(clsResult.result.Created) = 1
    /\ clsResult.result.Created[1].Data = "1"
    /\ Len(clsResult.result.Updated) = 1
    /\ clsResult.result.Updated[1].Data = "2"

MetadataEntries ==
    SelectSeq(MemberEntries, LAMBDA r : EntryOK(r) /\ ~EntryCarriesData(r))

\* C17: the entries whose status text contains "200" and that carry no
\* calendar document are in Updated as metadata-only objects: Path and ETag
\* set, Data unset; Updated holds no other object without a document.
C17_MetadataEntries ==
    Classified =>
        SelectSeq(clsResult.result.Updated, LAMBDA o : o.Data = NoData) =
            [k \in 1..Len(MetadataEntries) |->
                [isNil |-> FALSE, Path |-> MetadataEntries[k].Path,
                 ETag |-> EntryETag(MetadataEntries[k]), ModTime |-> 0,
                 ContentLength |-> Zero, Data |-> NoData]]

\* An entry with an entity tag and no document, reported as updated.
C17_Witness ==
    /\ Classified
    /\ Len(MetadataEntries) = 1
    /\ EntryETag(MetadataEntries[1]) = ETagOf("1")
    /\ \E k \in 1..Len(clsResult.result.Updated) :
        /\ clsResult.result.Updated[k].Data = NoData
        /\ clsResult.result.Updated[k].ETag = ETagOf("1")

RootEntries == SelectSeq(clsResponses, LAMBDA r : ~r.pathErr /\ r.Path = CalendarPath)

\* C18: an entry whose path is the calendar's own path is in none of
\* Created, Updated and Deleted, whatever its status and what it carries.
C18_RootNeverReported ==
    Classified =>
        /\ \A k \in 1..Len(clsResult.result.Created) :
                clsResult.result.Created[k].Path # CalendarPath
        /\ \A k \in 1..Len(clsResult.result.Updated) :
                clsResult.result.Updated[k].Path # CalendarPath
        /\ \A k \in 1..Len(clsResult.result.Deleted) :
                clsResult.result.Deleted[k].Path # CalendarPath
        /\ TotalChanges(clsResult.result) <= Len(MemberEntries)

\* The calendar's own row came with a document, or as removed, next to a
\* member that was reported.
C18_Witness ==
    /\ Classified
    /\ Len(RootEntries) = 1
    /\ EntryGone(RootEntries[1]) \/ (EntryOK(RootEntries[1]) /\ EntryHasDocument(RootEntries[1]))
    /\ TotalChanges(clsResult.result) = 1

(***************************************************************************)
(* Claims about the decoder of QueryCalendar and MultiGetCalendar.         *)
(***************************************************************************)
\* The call got the answer of its REPORT and handed it to the decoder.
Decoded == decRet.op # "none" /\ ~decRet.failed

Positions == 1..Len(decResponses)
Unreadable(k) == decResponses[k].pathErr
PropUnreadable(k, name) == decResponses[k].props[name].res = "error"
HasCalendarData(k) ==
    /\ decResponses[k].props.calendarData.res = "ok"
    /\ decResponses[k].props.calendarData.val # NoBytes

\* The entry at k stops the decoder on a property that cannot be read.
StopsOnProperty(k) ==
    /\ ~Unreadable(k)
    /\ \/ PropUnreadable(k, "calendarData")
       \/ /\ HasCalendarData(k)
          /\ \E name \in {"getlastmodified", "getetag", "getcontentlength"} :
                PropUnreadable(k, name)

\* The calendar data of the entry at k is handed to the iCalendar decoder and
\* fails to decode.
DataFailsToDecode(k) ==
    /\ ~Unreadable(k)
    /\ ~StopsOnProperty(k)
    /\ HasCalendarData(k)
    /\ decResponses[k].props.calendarData.val = CorruptBody

\* The entry at k yields an object.
Yields(k) ==
    /\ ~Unreadable(k)
    /\ ~StopsOnProperty(k)
    /\ HasCalendarData(k)
    /\ decResponses[k].props.calendarData.val \in Docs

\* The positions of a set, in increasing order.
RECURSIVE InOrder(_)
InOrder(S) ==
    IF S = {} THEN <<>>
    ELSE LET least == CHOOSE k \in S : \A j \in S : k <= j
         IN  <<least>> \o InOrder(S \ {least})

\* C19: an entry whose path cannot be extracted does not stop the decoder:
\* when no entry stops it on a property or a document, the call returns the
\* objects of all the entries that yield one, in their order, together with
\* the joined errors of the paths that could not be read (no error when there
\* is none).
C19_PathErrorsJoined ==
    (Decoded /\ \A k \in Positions : ~StopsOnProperty(k) /\ ~DataFailsToDecode(k)) =>
        LET built == InOrder({k \in Positions : Yields(k)})
            unread == InOrder({k \in Positions : Unreadable(k)})
        IN  /\ ~decRet.isNil
            /\ Len(decRet.objs) = Len(built)
            /\ \A n \in 1..Len(built) :
                /\ decRet.objs[n].Path = decResponses[built[n]].Path
                /\ decRet.objs[n].Data = decResponses[built[n]].props.calendarData.val
                /\ decRet.objs[n].ETag = decResponses[built[n]].props.getetag.val
            /\ decRet.err = IF unread = <<>> THEN NoListErr ELSE ListErr("join", unread)

\* An unreadable path between two entries with a document: both objects are
\* returned, with the error of the path.
C19_Witness ==
    /\ Decoded
    /\ Len(decResponses) = 3
    /\ Yields(1) /\ Unreadable(2) /\ Yields(3)
    /\ Len(decRet.objs) = 2
    /\ decRet.err = ListErr("join", <<2>>)

\* C20: when the calendar data of an entry fails to decode, and no entry
\* before it stopped the decoder, the call returns that decode error and no
\* objects: what the entries before it yielded is discarded, and the entries
\* after it have no effect on what is returned.
C20_DecodeErrorAborts ==
    Decoded =>
        \A k \in Positions :
            (DataFailsToDecode(k)
                /\ \A j \in 1..(k - 1) : ~StopsOnProperty(j) /\ ~DataFailsToDecode(j))
            => /\ decRet.isNil
               /\ decRet.objs = <<>>
               /\ decRet.err = IcalError(k)

\* A document that fails to decode between two that would decode: the error
\* alone is returned.
C20_Witness ==
    /\ Decoded
    /\ Len(decResponses) = 3
    /\ Yields(1) /\ DataFailsToDecode(2) /\ Yields(3)
    /\ decRet.isNil
    /\ decRet.err = IcalError(2)

\* The entry at k has a readable path and no calendar-data property, or an
\* empty one.
WithoutCalendarData(k) ==
    /\ ~Unreadable(k)
    /\ ~PropUnreadable(k, "calendarData")
    /\ ~HasCalendarData(k)

\* The value of a property of the entry at k, or zero when it has none.
ValueOrZero(k, name, zero) ==
    IF decResponses[k].props[name].res = "ok"
    THEN decResponses[k].props[name].val ELSE zero

\* C21: an entry without a calendar-data property is never the subject of
\* the error returned, and when nothing stops the decoder it contributes no
\* object; an entry with calendar data is returned also when it has no
\* last-modified, ETag or content-length property, with the zero value in
\* the fields of the properties it lacks.
C21_AbsentProperties ==
    Decoded =>
        /\ \A k \in Positions :
              WithoutCalendarData(k) =>
                  \A n \in 1..Len(decRet.err.what) : decRet.err.what[n] # k
        /\ (\A k \in Positions : ~StopsOnProperty(k) /\ ~DataFailsToDecode(k)) =>
              LET built == InOrder({k \in Positions : HasCalendarData(k) /\ ~Unreadable(k)})
              IN  /\ Len(decRet.objs) = Len(built)
                  /\ \A n \in 1..Len(built) :
                      /\ decRet.objs[n].Path = decResponses[built[n]].Path
                      /\ decRet.objs[n].ModTime = ValueOrZero(built[n], "getlastmodified", 0)
                      /\ decRet.objs[n].ETag = ValueOrZero(built[n], "getetag", <<>>)
                      /\ decRet.objs[n].ContentLength =
                            ValueOrZero(built[n], "getcontentlength", Zero)

\* The collection's own row, without calendar data, before a member that has
\* a document and none of the other properties: one object, zero-valued, and
\* no error.
C21_Witness ==
    /\ Decoded
    /\ Len(decResponses) = 2
    /\ WithoutCalendarData(1)
    /\ HasCalendarData(2) /\ ~Unreadable(2)
    /\ decResponses[2].props.getetag.res = "notfound"
    /\ decResponses[2].props.getlastmodified.res = "notfound"
    /\ decResponses[2].props.getcontentlength.res = "notfound"
    /\ Len(decRet.objs) = 1
    /\ decRet.objs[1].ETag = <<>> /\ decRet.objs[1].ModTime = 0
    /\ decRet.objs[1].ContentLength = Zero
    /\ decRet.err = NoListErr

(***************************************************************************)
(* Claims about the time range of QueryCalendar, under SpecQuery.          *)
(***************************************************************************)
\* The options of the last call give a time range: both ends, not both the
\* zero time.
RangeGiven(o) ==
    /\ ~o.isNil
    /\ ~o.TimeRangeStart.isNil /\ ~o.TimeRangeEnd.isNil
    /\ ~IsZero(o.TimeRangeStart.t) \/ ~IsZero(o.TimeRangeEnd.t)

\* The given range as a request carries it: the two instants, in UTC.
GivenRange(o) ==
    [isNil |-> FALSE,
     Start |-> Time(o.TimeRangeStart.t.sec, "UTC"),
     End |-> Time(o.TimeRangeEnd.t.sec, "UTC")]

\* The direct child at i is the first one named VEVENT.
IsFirstVEVENT(comps, i) ==
    /\ comps[i].Name = "VEVENT"
    /\ \A j \in 1..(i - 1) : comps[j].Name # "VEVENT"

\* C22: a QueryCalendar that is given a time range sends its REPORT with the
\* range on the first direct child of the root filter named VEVENT; the root
\* and every other child are sent as the caller's query had them, with the
\* whole of what is below them, and so is what is below the first VEVENT
\* child.  When no child is named VEVENT the whole filter is sent as the
\* caller had it, and the call does not fail for that.
C22_RangeOnFirstVEVENT ==
    [][(listCalls' = listCalls + 1 /\ sent'.op = "QueryCalendar" /\ RangeGiven(sent'.opts)) =>
        LET root == query.CompFilter
            f == sent'.req.Filter
        IN  /\ ~sent'.panicked
            /\ sent'.req.method = "REPORT"
            /\ f.Name = root.Name
            /\ f.TimeRange = encodeCompFilter(root).TimeRange
            /\ f.PropFilters = encodeCompFilter(root).PropFilters
            /\ Len(f.CompFilters) = Len(root.Comps)
            /\ \A i \in 1..Len(root.Comps) :
                IF IsFirstVEVENT(root.Comps, i)
                THEN f.CompFilters[i] =
                        [encodeCompFilter(root.Comps[i]) EXCEPT
                            !.TimeRange = GivenRange(sent'.opts)]
                ELSE f.CompFilters[i] = encodeCompFilter(root.Comps[i])]_vars

\* A range was given for a query with two VEVENT children, the first with a
\* VEVENT child of its own: the request has the range on the first child
\* alone.
C22_Witness ==
    /\ sent.op = "QueryCalendar" /\ ~sent.panicked
    /\ listCalls = 1
    /\ RangeGiven(sent.opts)
    /\ sent.opts.TimeRangeStart.t.loc = "Local"
    /\ Len(sent.req.Filter.CompFilters) = 2
    /\ sent.req.Filter.CompFilters[1].Name = "VEVENT"
    /\ sent.req.Filter.CompFilters[2].Name = "VEVENT"
    /\ sent.req.Filter.CompFilters[1].TimeRange = GivenRange(sent.opts)
    /\ sent.req.Filter.CompFilters[2].TimeRange = NoTimeRange
    /\ sent.req.Filter.TimeRange = NoTimeRange
    /\ Len(sent.req.Filter.CompFilters[1].CompFilters) = 1
    /\ sent.req.Filter.CompFilters[1].CompFilters[1].TimeRange = NoTimeRange

\* C23 as stated: a QueryCalendar call leaves the Start and End of every
\* filter node of the caller's query as they were before the call.
C23_CallerQueryUnchanged ==
    [][listCalls' = listCalls + 1 => query' = query]_vars

(***************************************************************************)
(* Claims about the configured resolver and the objects the write path     *)
(* returns, under Spec.                                                    *)
(***************************************************************************)
\* What a resolver may decide on two objects of which the given one was
\* modified later.
ExpectedDecisions(r, newer) ==
    CASE r = "LastModifiedWins" -> IF newer = "remote" THEN {UseRemote} ELSE {UseLocal}
      [] r = "AlwaysUseLocal" -> {UseLocal}
      [] r = "AlwaysUseRemote" -> {UseRemote}
      [] OTHER -> Decisions

\* C24: as long as SetConflictResolver was never called no resolver is
\* configured; a PUT of PutCalendarObject answered 412 returns
\* ErrPreconditionFailed in that very step, its last request being the PUT,
\* when SetConflictResolver was never called or was last called with nil; it
\* enters the resolution when the last call gave a resolver, and the decision
\* then made is one of the resolver the last call gave.
C24_LastSetResolver ==
    [][/\ lastSet = "none" => conflictResolver = "nil"
       /\ lastSet' = "none" => conflictResolver' = "nil"
       /\ (PutRejected /\ lastSet \in {"none", "nil"}) =>
            /\ pc' = "returned"
            /\ ret' = [obj |-> NilObj, err |-> ErrPreconditionFailed]
            /\ reqs'[Len(reqs')].method = "PUT"
            /\ \A k \in 1..Len(reqs') : k > Len(reqs) \/ pc = "idle" =>
                    reqs'[k].method # "GET"
       /\ (PutRejected /\ lastSet \notin {"none", "nil"}) => pc' = "handleConflict"
       /\ (pc = "handleConflict" /\ pc' # pc /\ resolved'.made) =>
            /\ lastSet \notin {"none", "nil"}
            /\ resolved'.decision \in ExpectedDecisions(lastSet, resolved'.newer)
      ]_vars

\* A resolver was set and nil after it; the Put that was answered 412 has
\* failed on its one request.
C24_Witness ==
    /\ PutReturned
    /\ status = StatusPreconditionFailed
    /\ lastSet = "nil"
    /\ ret = [obj |-> NilObj, err |-> ErrPreconditionFailed]
    /\ Len(reqs) = 1

(***************************************************************************)
(* Claims about the result types, under SpecResult.                        *)
(***************************************************************************)
\* The part of a path after its last slash, and a name without a trailing
\* ".ics".
AfterLastSlash(path) ==
    IF \E i \in 1..Len(path) : path[i] = "/"
    THEN LET i == CHOOSE i \in 1..Len(path) :
                    path[i] = "/" /\ \A j \in (i + 1)..Len(path) : path[j] # "/"
         IN  SubSeq(path, i + 1, Len(path))
    ELSE path
WithoutIcs(name) ==
    IF Len(name) >= 4 /\ SubSeq(name, Len(name) - 3, Len(name)) = DotIcs
    THEN SubSeq(name, 1, Len(name) - 4)
    ELSE name

\* C25 as stated: ExtractUID returns the UID field when it is not empty, and
\* otherwise the part of Path after the last slash without a trailing
\* ".ics", which is the empty string for an empty Path.
C25_ExtractUID ==
    extracted.applied =>
        extracted.uid = IF extracted.item.UID # <<>> THEN extracted.item.UID
                        ELSE WithoutIcs(AfterLastSlash(extracted.item.Path))

\* The call returned the object it built from the response to its last PUT.
PutBuilt == PutReturned /\ ret.err = NoErr /\ LastRequest.method = "PUT"

\* An entity tag header without the double quotes around it, if it has them.
TagOfHeader(h) ==
    IF Len(h) >= 2 /\ h[1] = DQ /\ h[Len(h)] = DQ THEN SubSeq(h, 2, Len(h) - 1) ELSE h

\* The number a Content-Length header writes: its digits after its sign,
\* a plus sign being none.
NumberWritten(h) == IF h[1] = "+" THEN Tail(h) ELSE h

\* C26: the object a PutCalendarObject returns for the response to its PUT is
\* built from the headers of that response alone: ETag, ContentLength and
\* ModTime are what the ETag, Content-Length and Last-Modified headers say
\* (the zero value when the header is missing), Path is the path of the
\* Location header, the URL without its origin and its query, when there is
\* one and the path of the request otherwise, and Data is unset.
C26_BuiltFromHeaders ==
    PutBuilt =>
        /\ ret.obj.Data = NoData
        /\ IF hdrs.Location = <<>> THEN ret.obj.Path = call.path
           ELSE /\ ret.obj.Path[1] = "/"
                /\ \E pre \in {<<>>, Origin}, post \in {<<>>, Query} :
                        hdrs.Location = pre \o ret.obj.Path \o post
        /\ ret.obj.ETag = TagOfHeader(hdrs.ETag)
        /\ ret.obj.ContentLength =
                (IF hdrs.ContentLength = <<>> THEN Zero
                 ELSE NumberWritten(hdrs.ContentLength))
        /\ ret.obj.ModTime =
                (IF hdrs.LastModified.set THEN hdrs.LastModified.sec * TicksPerSecond ELSE 0)

\* A Put to one path answered with a Location that is the URL of another,
\* an entity tag, a length and a date.
C26_Witness ==
    /\ PutBuilt
    /\ call.path = PathA
    /\ hdrs.Location = Origin \o PathB \o Query
    /\ ret.obj.Path = PathB
    /\ ret.obj.ETag = ETagOf(call.cal)
    /\ ret.obj.ContentLength = <<"1", "2">>
    /\ ret.obj.ModTime = TicksPerSecond
    /\ ret.obj.Data = NoData

(***************************************************************************)
(* Claims about the entity tags of the objects returned, under SpecPut.    *)
(***************************************************************************)
\* C27 as stated: the object every successful PutCalendarObject returns has
\* an ETag that is not empty and is none of the ETags returned earlier for
\* the path.
C27_FreshETag ==
    PutBuilt =>
        /\ ret.obj.ETag # <<>>
        /\ ret.obj.ETag \notin kept[call.path]

\* C27, amended: the object a successful PutCalendarObject returns has the
\* entity tag of the ETag header of the response, which is not empty when
\* the server sent a tag that is not, and is empty when the server sent no
\* such header; whether it is one of the tags returned earlier for the path
\* is the server's doing.
C27_ETagOfResponse ==
    PutBuilt =>
        /\ hdrs.ETag = <<>> => ret.obj.ETag = <<>>
        /\ hdrs.ETag # <<>> => ret.obj.ETag = TagOfHeader(hdrs.ETag)
        /\ TagOfHeader(hdrs.ETag) # <<>> => ret.obj.ETag # <<>>

\* A second Put of a document to a path, answered with the entity tag the
\* first was answered with.
C27_Witness ==
    /\ PutBuilt
    /\ ret.obj.ETag # <<>>
    /\ ret.obj.ETag \in kept[call.path]

(***************************************************************************)
(* Claims about the entity tags as values, under SpecTag.                  *)
(***************************************************************************)
\* C28 as stated: the ETag of the object is the server's header value as it
\* is, and two header values that differ give two ETags that differ.
C28_OpaqueETag ==
    tagged.op # "none" =>
        /\ tagged.a = tagA
        /\ tagged.b = tagB
        /\ tagA # tagB => tagged.a # tagged.b

\* A tag without quotes and backslashes in it.
PlainTag(t) == \A k \in 1..Len(t) : t[k] \notin {DQ, "'", BQ, "\\"}

\* A value that has the form of a Go literal: between two double quotes,
\* two single quotes or two grave accents.
LiteralForm(h) == Len(h) >= 2 /\ h[1] \in {DQ, "'", BQ} /\ h[Len(h)] = h[1]

\* C28, amended: the ETag of the object is the header value without its
\* quotes when it is a plain tag between double quotes or between grave
\* accents, and the header value as it is when it neither begins nor ends
\* with a quote; two header values that differ give the same ETag only
\* when each of them is that ETag or has the form of a literal, in double
\* quotes, in single quotes or between grave accents.
C28_ETagUnquoted ==
    tagged.op # "none" =>
        /\ \A x \in {<<tagA, tagged.a>>, <<tagB, tagged.b>>} :
            /\ (\E t \in ServerTags : PlainTag(t) /\ x[1] = Quote(t)) =>
                    x[1] = Quote(x[2])
            /\ (\E t \in ServerTags : PlainTag(t) /\ x[1] = <<BQ>> \o t \o <<BQ>>) =>
                    x[1] = <<BQ>> \o x[2] \o <<BQ>>
            /\ (x[1] = <<>> \/ (/\ x[1][1] \notin {DQ, "'", BQ}
                                /\ x[1][Len(x[1])] \notin {DQ, "'", BQ}))
                    => x[2] = x[1]
        /\ (tagA # tagB /\ tagged.a = tagged.b) =>
                \A h \in {tagA, tagB} : h = tagged.a \/ LiteralForm(h)

\* The same tag sent in double quotes and bare: one ETag for both.
C28_Witness ==
    /\ tagged.op = "Put"
    /\ tagA = Quote(ETagOf("1"))
    /\ tagB = ETagOf("1")
    /\ tagged.a = ETagOf("1")
    /\ tagged.b = ETagOf("1")

(***************************************************************************)
(* Claims about what a SyncResult never holds and never loses.             *)
(***************************************************************************)
\* C29: every entry of Deleted has a non-empty Path, after any sequence of
\* AddCreated, AddUpdated and AddDeleted calls.
C29_DeletedPathNonEmpty ==
    \A k \in 1..Len(madeResult.Deleted) : madeResult.Deleted[k].Path # <<>>

\* An entry with a corrupt calendar-data payload that SyncCalendar reads as
\* a document: a member whose status text contains "200" and not "404".
EntryCorrupt(r) ==
    /\ EntryOK(r)
    /\ \E k \in 1..Len(r.PropStats) : r.PropStats[k].Data = CorruptBody

\* C30: a SyncCalendar call given an entry with a corrupt calendar-data
\* payload returns the decode error instead of a result.
C30_CorruptAborts ==
    (/\ clsResult.applied
     /\ \E k \in 1..Len(MemberEntries) : EntryCorrupt(MemberEntries[k]))
        => /\ clsResult.err # NoErr
           /\ clsResult.result.isNil

(***************************************************************************)
(* Claims about a SyncResult as a record of the Add calls made on it.      *)
(***************************************************************************)
\* The items of the Add calls made on one list, in call order.
AddedTo(list) ==
    LET picked == SelectSeq(addCalls.calls, LAMBDA c : c.to = list)
    IN  [k \in 1..Len(picked) |-> picked[k].item]

\* C31: after any sequence of AddCreated, AddUpdated and AddDeleted calls on
\* a result of NewSyncResult(token), each list holds the items added to it
\* in call order, TotalChanges is the number of Add calls and SyncToken is
\* token; a fresh result has three empty lists and TotalChanges 0.
C31_ListsAreTheAddCalls ==
    /\ madeResult.Created = AddedTo("Created")
    /\ madeResult.Updated = AddedTo("Updated")
    /\ madeResult.Deleted = AddedTo("Deleted")
    /\ TotalChanges(madeResult) = Len(addCalls.calls)
    /\ madeResult.SyncToken = addCalls.token
    /\ addCalls.calls = <<>> => TotalChanges(madeResult) = 0

\* An AddUpdated followed by an AddCreated on a result with a token.
C31_Witness ==
    /\ addCalls.token = TokenOf(1)
    /\ Len(addCalls.calls) = 2
    /\ addCalls.calls[1].to = "Updated"
    /\ addCalls.calls[2].to = "Created"
    /\ Len(madeResult.Updated) = 1
    /\ Len(madeResult.Created) = 1

(***************************************************************************)
(* Claims about two QueryCalendar calls at once, under SpecRace.           *)
(***************************************************************************)
\* The request a call sends when it runs alone on the given query.
AloneRequest(opts) == QueryRequest(CalendarPath, ApplyTimeRange(givenQuery, opts).query)

\* C32: each of two concurrent QueryCalendar calls given the same
\* CalendarQuery sends the request it would send if it ran alone, and no
\* call writes what the other reads: the shared filter stays as it was
\* given.
C32_ConcurrentQueries ==
    /\ \A c \in Callers :
        racing[c].pc = "sent" => racing[c].req = AloneRequest(racing[c].opts)
    /\ sharedComps = givenQuery.CompFilter.Comps

(***************************************************************************)
(* Claims about the write path when the resolver is set anew, when the     *)
(* server keeps refusing and when the re-fetch fails, under Spec.          *)
(***************************************************************************)
\* C33: a PutCalendarObject that found a resolver set when it received the
\* 412 invokes no nil resolver, and the decision it acts on is one of the
\* resolver it found, whatever SetConflictResolver calls run before
\* handleConflict resolves.
C33_ResolverOfTheCheck ==
    [][(pc = "handleConflict" /\ pc' # "handleConflict") =>
            /\ pc' # "crashed"
            /\ resolved'.made =>
                resolved'.decision \in ExpectedDecisions(checked, resolved'.newer)]_vars

\* The requests of the call so far that have the given method.
RequestsBy(method) == Len(SelectSeq(reqs, LAMBDA r : r.method = method))

\* C34: one PutCalendarObject call issues at most two PUT requests and one
\* GET, also when the server answers the unconditional re-write with 412
\* again and the resolver decides UseLocal again.
C34_AtMostTwoPuts ==
    call.op = "Put" =>
        /\ RequestsBy("PUT") <= 2
        /\ RequestsBy("GET") <= 1

(***************************************************************************)
(* A claim about QueryCalendar on half a time range, under SpecQuery.      *)
(***************************************************************************)
\* Exactly one of TimeRangeStart and TimeRangeEnd is set.
HalfGiven(o) == ~o.isNil /\ (o.TimeRangeStart.isNil # o.TimeRangeEnd.isNil)

\* C35: a QueryCalendar call given exactly one of TimeRangeStart and
\* TimeRangeEnd, on a query whose root filter has a VEVENT child, reads
\* through no nil pointer: it has sent its REPORT or returned an error.
C35_HalfRangeDoesNotCrash ==
    (/\ sent.op = "QueryCalendar"
     /\ HalfGiven(sent.opts)
     /\ FirstVEVENT(query.CompFilter.Comps) # 0)
        => /\ ~sent.panicked
           /\ sent.req.method = "REPORT" \/ decRet.err # NoListErr

(***************************************************************************)
(* A claim about entries with a property the server lacks, under           *)
(* SpecClassify.                                                           *)
(***************************************************************************)
\* An entry without a status of its own, with one propstat of status 200
\* and one of status 404, in either order.
EntryLacksProperty(r) ==
    /\ ~r.Status.set
    /\ Len(r.PropStats) = 2
    /\ {r.PropStats[1].Status, r.PropStats[2].Status} = {StatusOK, StatusMissing}

PathsOf(list) == {list[k].Path : k \in 1..Len(list)}

\* C36: a member entry without a response-level status, with one propstat
\* of status 200 and one of status 404, the only entry of its path, is
\* reported in Updated or Created and not in Deleted, whatever the order of
\* its two propstats.
C36_MissingPropertyIsNoDeletion ==
    Classified =>
        \A k \in 1..Len(MemberEntries) :
            (/\ EntryLacksProperty(MemberEntries[k])
             /\ \A j \in 1..Len(MemberEntries) :
                    j # k => MemberEntries[j].Path # MemberEntries[k].Path)
                => /\ MemberEntries[k].Path \notin PathsOf(clsResult.result.Deleted)
                   /\ MemberEntries[k].Path \in PathsOf(clsResult.result.Updated)
                                                   \cup PathsOf(clsResult.result.Created)

(***************************************************************************)
(* Claims about the local object of handleConflict and about a re-fetch    *)
(* that fails, under Spec.                                                 *)
(***************************************************************************)
\* Which of two objects was modified later, the local one at time t and the
\* re-fetched one at time u.
Later(t, u) == IF t > u THEN "local" ELSE IF u > t THEN "remote" ELSE "neither"

\* C37: the local object handleConflict hands to the resolver carries a
\* clock time as its ModTime, so that it is the later one whenever the
\* re-fetched object has no Last-Modified; with a LastModifiedWinsResolver,
\* whenever the re-fetched object is not the later one the decision is
\* UseLocal and the call goes on to the re-write, which, once accepted,
\* replaces the server's version with the call's document.
C37_LocalStampedWithClock ==
    [][/\ LastModifiedWinsAsked =>
            /\ \E now \in 1..MaxTime : resolved'.newer = Later(now, resolved'.seenAt)
            /\ resolved'.seenAt = 0 => resolved'.newer = "local"
            /\ resolved'.newer # "remote" =>
                    /\ resolved'.decision = UseLocal
                    /\ pc' = "rewrite"
       /\ (pc = "rewrite" /\ pc' # pc /\ conflictResolver = "LastModifiedWins"
           /\ status' \in {201, 204}) =>
                /\ reqs'[Len(reqs')].IfMatch = <<>>
                /\ reqs'[Len(reqs')].IfNoneMatch = <<>>
                /\ server'[call.path] = call.cal
      ]_vars

\* A remote version without Last-Modified, other than the caller's document,
\* overwritten by the re-write a LastModifiedWinsResolver decided.
C37_Witness ==
    /\ PutReturned
    /\ conflictResolver = "LastModifiedWins"
    /\ resolved.made
    /\ resolved.seenAt = 0
    /\ resolved.newer = "local"
    /\ resolved.decision = UseLocal
    /\ resolved.seen # call.cal
    /\ resolved.over # NoData
    /\ resolved.over # call.cal
    /\ wrote = 1
    /\ server[call.path] = call.cal
    /\ ret.err = NoErr

(***************************************************************************)
(* A claim about the two derivations of a UID, under SpecResult.           *)
(***************************************************************************)
\* C38: for an item without a UID, SyncDeletedItem.ExtractUID returns what
\* Client.extractUIDFromPath returns for the item's Path, on every path.
C38_DerivationsAgree ==
    (extracted.applied /\ extracted.item.UID = <<>>) =>
        extracted.uid = extractUIDFromPath(extracted.item.Path)

\* handleConflict has returned on a failed re-fetch: the error wraps the
\* error of GetCalendarObject, the resolver was not asked, and the GET is
\* the call's last request, the server being as it was.
FetchFailedAfter ==
    /\ pc' = "returned"
    /\ ret'.obj = NilObj
    /\ ret'.err.kind = "failed to get remote version"
    /\ ret'.err.wraps # <<>>
    /\ ret'.err.wraps[1] \notin {NoErr, ErrPreconditionFailed}
    /\ ret'.err # ErrPreconditionFailed
    /\ ~resolved'.made
    /\ reqs' = Append(reqs, Request("GET", call.path, NoOpts, NoData))
    /\ server' = server
    /\ wrote' = wrote

\* C39: when the re-fetch of handleConflict fails (the GET is not answered
\* 200, or its response cannot be made an object), the resolver is not
\* invoked, no write is issued and PutCalendarObject returns an error that
\* wraps the error of the fetch, not ErrPreconditionFailed.
C39_FailedFetchIsReported ==
    [][(pc = "handleConflict" /\ pc' # pc) =>
            /\ status' # 200 => FetchFailedAfter
            /\ (~resolved'.made /\ pc' # "crashed") => FetchFailedAfter
      ]_vars

\* The resource was deleted after the 412: the re-fetch is answered 404.
C39_Witness ==
    /\ PutReturned
    /\ conflictResolver # "nil"
    /\ Len(reqs) = 2
    /\ reqs[1].IfMatch # <<>>
    /\ status = StatusNotFound
    /\ server[call.path] = NoRes
    /\ wrote = 0
    /\ ~resolved.made
    /\ ret.err.kind = "failed to get remote version"

\* C40: whenever PutCalendarObject returns an error the server has accepted
\* no write from that call; a success response with a header that cannot be
\* parsed is no failure of the call.
C40_ErrorMeansNoWrite ==
    (PutReturned /\ ret.err # NoErr) => wrote = 0

====
